---- MODULE Spec2Model ----
(***************************************************************************)
(* Unit repository and IP conflict resolver of the IP management system.  *)
(*                                                                         *)
(* Strings are sequences of one-character strings, so that trimming and   *)
(* the IPv4 regular expression are computed character by character.       *)
(* The JavaScript values null and undefined are the one-element sequences *)
(* NULL and UNDEFINED, whose element is no character.                      *)
(* A unit document carries _id, name, ip, sharedComputer and primaryUser; *)
(* the open-ended variant fields (...rest) are copied through untouched   *)
(* by the handlers and are left out.                                       *)
(***************************************************************************)
EXTENDS Integers, Sequences, FiniteSets, TLC

VARIABLES units, nextId, last, procs, cablestock, upload, consumptionData,
          inventory, inventoryLast, availableIps, ipInts, unitList, mongo

\* the units collection and the requests on it
unitVars == <<units, nextId, last, procs>>

\* the cablestock collection and the last upload request
stockVars == <<cablestock, upload>>

\* the inventory collection and the last request on it
inventoryVars == <<inventory, inventoryLast>>

vars ==
    <<unitVars, stockVars, consumptionData, inventoryVars, availableIps,
      ipInts, unitList, mongo>>

\* what a request on the units collection leaves alone
outsideUnits ==
    <<stockVars, consumptionData, inventoryVars, availableIps, ipInts,
      unitList, mongo>>

\* what a cable-stock upload leaves alone
outsideStock ==
    <<unitVars, consumptionData, inventoryVars, availableIps, ipInts,
      unitList, mongo>>

\* what a comparison of two snapshots leaves alone
outsideConsumption ==
    <<unitVars, stockVars, inventoryVars, availableIps, ipInts, unitList,
      mongo>>

\* what a request on the inventory collection leaves alone
outsideInventory ==
    <<unitVars, stockVars, consumptionData, availableIps, ipInts,
      unitList, mongo>>

\* what a page of available addresses leaves alone
outsideAvailableIps ==
    <<unitVars, stockVars, consumptionData, inventoryVars, ipInts,
      unitList, mongo>>

\* what a conversion of addresses to numbers leaves alone
outsideIpInts ==
    <<unitVars, stockVars, consumptionData, inventoryVars, availableIps,
      unitList, mongo>>

\* what a listing of the units leaves alone
outsideUnitList ==
    <<unitVars, stockVars, consumptionData, inventoryVars, availableIps,
      ipInts, mongo>>

\* what a call of connectToDatabase leaves alone
outsideMongo ==
    <<unitVars, stockVars, consumptionData, inventoryVars, availableIps,
      ipInts, unitList>>

(* ----------------------------- bounds ---------------------------------- *)

\* number of units ever created in one behaviour (ids are never reused)
MaxUnits == 2

\* number of items of a snapshot that is compared
MaxItems == 2

\* number of inventory items stored at one time
MaxInventory == 3

\* number of gateways of the configuration
MaxGateways == 2

\* number of units stored when the units are listed
MaxListed == 3

\* number of MongoClient objects ever constructed by connectToDatabase
MaxClients == 3

(* ------------------------- JavaScript values --------------------------- *)

NULL == <<"null">>

UNDEFINED == <<"undefined">>

\* !v for a value that is a string, null or undefined
Falsy(v) == v = NULL \/ v = UNDEFINED \/ v = <<>>

Truthy(v) == ~Falsy(v)

\* a || b
Or(a, b) == IF Truthy(a) THEN a ELSE b

\* the characters matched by \s that occur in the inputs
Whitespace == {" ", "\t"}

RECURSIVE TrimEnd(_)
\* s.replace(/\s+$/, "")
TrimEnd(s) ==
    IF s = <<>> THEN s
    ELSE IF s[Len(s)] \in Whitespace THEN TrimEnd(SubSeq(s, 1, Len(s) - 1))
    ELSE s

\* the character class of problematicCharsRegex
ProblematicChars ==
    {"/", "?", "&", "=", "#", ":", "%", "+", "'", "\"", "\\", ";", "<", ">"}

\* problematicCharsRegex.test(s)
ProblematicCharsRegexTest(s) == \E i \in 1..Len(s) : s[i] \in ProblematicChars

(* ----------------------------- IPv4Regex ------------------------------- *)

Digits == {"0", "1", "2", "3", "4", "5", "6", "7", "8", "9"}

RECURSIVE SplitDots(_)
\* the maximal dot-free pieces of s, in order
SplitDots(s) ==
    IF \A i \in 1..Len(s) : s[i] # "."
    THEN <<s>>
    ELSE LET k == CHOOSE i \in 1..Len(s) :
                     s[i] = "." /\ \A j \in 1..(i - 1) : s[j] # "."
         IN  <<SubSeq(s, 1, k - 1)>> \o SplitDots(SubSeq(s, k + 1, Len(s)))

\* one group (25[0-5]|2[0-4][0-9]|[01]?[0-9][0-9]?) against a whole piece
OctetMatch(g) ==
    /\ Len(g) \in 1..3
    /\ \A i \in 1..Len(g) : g[i] \in Digits
    /\ Len(g) = 3 =>
          \/ g[1] \in {"0", "1"}
          \/ g[1] = "2" /\ g[2] \in {"0", "1", "2", "3", "4"}
          \/ g[1] = "2" /\ g[2] = "5" /\ g[3] \in {"0", "1", "2", "3", "4", "5"}

\* IPv4Regex.test(s) for a string s
IPv4RegexTest(s) ==
    LET parts == SplitDots(s)
    IN  /\ Len(parts) = 4
        /\ \A i \in 1..4 : OctetMatch(parts[i])

(* ------------------------------ inputs --------------------------------- *)

NameA == <<"a">>

NameB == <<"b">>

NameBTrail == <<"b", " ">>

NameBlank == <<" ">>

NameSlash == <<"a", "/">>

IpOne == <<"1", ".", "1", ".", "1", ".", "1">>

IpTwo == <<"1", ".", "1", ".", "1", ".", "2">>

IpBad == <<"1", ".", "1", ".", "1", ".", "2", "5", "6">>

\* name of a request body
NameInputs == {UNDEFINED, NameA, NameBTrail, NameBlank, NameSlash}

\* ip of a request body
IpInputs == {UNDEFINED, IpOne, IpTwo, IpBad}

\* sharedComputer of a request body (FormData: sharedComputer?: boolean)
SharedInputs == {"undefined", "true", "false"}

\* primaryUser of a request body (FormData: primaryUser?: string | null);
\* null is handled like undefined on every path and is left out
PrimaryInputs == {UNDEFINED, NameA, NameB}

\* the name parameter of DELETE /api/units/{name}
DeleteNames == {NameA, NameB}

Ids == 1..MaxUnits

CreateRequests ==
    [name : NameInputs, ip : IpInputs,
     sharedComputer : SharedInputs, primaryUser : PrimaryInputs]

UpdateRequests ==
    [_id : Ids \cup {0}, name : NameInputs, ip : IpInputs,
     sharedComputer : SharedInputs, primaryUser : PrimaryInputs]


(* ------------------------- the units collection ------------------------ *)

\* serialisation of a field value: the driver writes undefined as null
Bson(v) == IF v = UNDEFINED THEN NULL ELSE v

\* units.find({ name })
FindByName(U, name) == {u \in U : u.name = name}

\* units.find({ ip, sharedComputer: { $ne: true } })
FindByIpNotShared(U, ip) == {u \in U : u.ip = ip /\ u.sharedComputer # "true"}

\* units.find({ ip, _id: { $ne: id }, sharedComputer: { $ne: true } })
FindDuplicateIP(U, ip, id) == {u \in FindByIpNotShared(U, ip) : u._id # id}

\* units.find({ name, _id: { $ne: id } })
FindDuplicateName(U, name, id) == {u \in FindByName(U, name) : u._id # id}

\* an insert behind a unique index on name, which the collection does not have
InsertOneUniqueName(U, doc) ==
    IF \E u \in U : u.name = doc.name THEN U ELSE U \cup {doc}

\* units.insertOne(doc)
InsertOne(U, doc) == U \cup {doc}

\* units.updateOne({ _id: id }, { $set: fields })
UpdateOne(U, id, fields) ==
    {IF u._id = id THEN [fields EXCEPT !._id = id] ELSE u : u \in U}

Response(status, error, U, id) ==
    [status |-> status, error |-> error, units |-> U, id |-> id]

(* --------------------------- POST /api/units --------------------------- *)

\* the checks of the create handler that read no document
CreateValidate(req) ==
    IF Falsy(req.name) THEN "Name is required"
    ELSE IF ProblematicCharsRegexTest(TrimEnd(req.name))
         THEN "Name contains characters that are not allowed"
         ELSE ""

\* the lookup of a unit of the same name
CreateNameTaken(U, req) == FindByName(U, TrimEnd(req.name)) # {}

\* which branch of the shared-computer scenario the create handler takes
CreateBranch(req) ==
    IF req.sharedComputer = "true" /\ Truthy(req.primaryUser) THEN "primary"
    ELSE IF req.sharedComputer # "true" /\ Truthy(req.ip) THEN "ip"
    ELSE "none"

\* the outcomes [error, finalIp] of the shared-computer scenario
CreateResolveIpAnyHolder(U, req) ==
    CASE CreateBranch(req) = "primary" ->
           IF FindByName(U, req.primaryUser) = {}
           THEN {[error |-> "Primary user not found", finalIp |-> req.ip]}
           ELSE {[error |-> "", finalIp |-> p.ip] :
                     p \in FindByName(U, req.primaryUser)}
      [] CreateBranch(req) = "ip" ->
           IF \E u \in U : u.ip = req.ip
           THEN {[error |-> "IP already exists", finalIp |-> req.ip]}
           ELSE {[error |-> "", finalIp |-> req.ip]}
      [] OTHER -> {[error |-> "", finalIp |-> req.ip]}

CreateResolveIp(U, req) ==
    CASE CreateBranch(req) = "primary" ->
           IF FindByName(U, req.primaryUser) = {}
           THEN {[error |-> "Primary user not found", finalIp |-> req.ip]}
           ELSE {[error |-> "", finalIp |-> p.ip] :
                     p \in FindByName(U, req.primaryUser)}
      [] CreateBranch(req) = "ip" ->
           IF FindByIpNotShared(U, req.ip) # {}
           THEN {[error |-> "IP already exists", finalIp |-> req.ip]}
           ELSE {[error |-> "", finalIp |-> req.ip]}
      [] OTHER -> {[error |-> "", finalIp |-> req.ip]}

\* primaryUser of the new document
CreatePrimaryUser(req) ==
    IF req.sharedComputer = "true" THEN req.primaryUser ELSE NULL

\* the document the create handler inserts
NewUnit(req, id, finalIp) ==
    [_id            |-> id,
     name           |-> TrimEnd(req.name),
     ip             |-> Or(finalIp, <<>>),
     sharedComputer |-> IF req.sharedComputer = "true" THEN "true" ELSE "false",
     primaryUser    |-> Bson(CreatePrimaryUser(req))]

\* the create handler run to completion on collection U
CreateUnitInsertingFirst(U, id, req) ==
    IF CreateValidate(req) # ""
    THEN {Response(400, CreateValidate(req), U, 0)}
    ELSE IF CreateNameTaken(U, req)
    THEN {Response(400, "Name already exists", U, 0)}
    ELSE {IF r.error # ""
          THEN Response(400, r.error, InsertOne(U, NewUnit(req, id, req.ip)), 0)
          ELSE Response(201, "", InsertOne(U, NewUnit(req, id, r.finalIp)), id) :
              r \in CreateResolveIp(U, req)}

CreateUnit(U, id, req) ==
    IF CreateValidate(req) # ""
    THEN {Response(400, CreateValidate(req), U, 0)}
    ELSE IF CreateNameTaken(U, req)
    THEN {Response(400, "Name already exists", U, 0)}
    ELSE {IF r.error # ""
          THEN Response(400, r.error, U, 0)
          ELSE Response(201, "", InsertOne(U, NewUnit(req, id, r.finalIp)), id) :
              r \in CreateResolveIp(U, req)}

(* ------------------------- PUT /api/units/{name} ----------------------- *)

\* the stored document a request's _id names, as a set of at most one
ExistingUnit(U, req) == {u \in U : u._id = req._id}

\* trimmedName
UpdateTrimmedName(existingUnit, req) ==
    IF Truthy(req.name) THEN TrimEnd(req.name) ELSE existingUnit.name

\* whether the update handler looks for another unit of the new name
UpdateChecksName(existingUnit, req) ==
    /\ Truthy(UpdateTrimmedName(existingUnit, req))
    /\ UpdateTrimmedName(existingUnit, req) # existingUnit.name

\* finalSharedComputer
FinalSharedComputer(existingUnit, req) ==
    IF req.sharedComputer # "undefined" THEN req.sharedComputer
    ELSE existingUnit.sharedComputer

\* isChangingFromSharedToNonShared
IsChangingFromSharedToNonShared(existingUnit, req) ==
    /\ existingUnit.sharedComputer = "true"
    /\ FinalSharedComputer(existingUnit, req) = "false"

\* isChangingIP
IsChangingIP(existingUnit, req) == Truthy(req.ip) /\ req.ip # existingUnit.ip

\* the duplicate-IP block entered only when the ip changes
UpdateChecksIPWhenChangingOnly(existingUnit, req) == IsChangingIP(existingUnit, req)

\* whether the update handler runs its duplicate-IP block
UpdateChecksIP(existingUnit, req) ==
    \/ IsChangingFromSharedToNonShared(existingUnit, req)
    \/ IsChangingIP(existingUnit, req)

\* ipToCheck (finalIp is still the request's ip on this branch)
IpToCheck(existingUnit, req) == Or(Or(req.ip, req.ip), existingUnit.ip)

\* the outcomes [error, finalIp] of the update handler's IP block
UpdateResolveIp(U, existingUnit, req) ==
    IF FinalSharedComputer(existingUnit, req) = "true" /\ Truthy(req.primaryUser)
    THEN IF FindByName(U, req.primaryUser) = {}
         THEN {[error |-> "Primary user not found", finalIp |-> req.ip]}
         ELSE {[error |-> "", finalIp |-> p.ip] :
                   p \in FindByName(U, req.primaryUser)}
    ELSE IF /\ FinalSharedComputer(existingUnit, req) # "true"
            /\ UpdateChecksIP(existingUnit, req)
    THEN IF /\ Falsy(IpToCheck(existingUnit, req))
            /\ IsChangingFromSharedToNonShared(existingUnit, req)
         THEN {[error |-> "IP is required when changing from shared to non-shared computer",
                finalIp |-> req.ip]}
         ELSE IF FindDuplicateIP(U, IpToCheck(existingUnit, req),
                                 existingUnit._id) # {}
         THEN {[error |-> "IP already exists", finalIp |-> req.ip]}
         ELSE {[error |-> "", finalIp |-> req.ip]}
    ELSE {[error |-> "", finalIp |-> req.ip]}

\* finalPrimaryUser without the reset to null
FinalPrimaryUserKept(existingUnit, req) ==
    Or(req.primaryUser, existingUnit.primaryUser)

\* finalPrimaryUser
FinalPrimaryUser(existingUnit, req) ==
    IF FinalSharedComputer(existingUnit, req) = "true"
    THEN Or(req.primaryUser, existingUnit.primaryUser)
    ELSE NULL

\* updatedUnit
UpdatedUnit(existingUnit, req, finalIp) ==
    [_id            |-> existingUnit._id,
     name           |-> UpdateTrimmedName(existingUnit, req),
     ip             |-> Bson(Or(finalIp, existingUnit.ip)),
     sharedComputer |-> FinalSharedComputer(existingUnit, req),
     primaryUser    |-> Bson(FinalPrimaryUser(existingUnit, req))]

\* the update handler run to completion on collection U for a found unit
UpdateFound(U, existingUnit, req) ==
    IF ProblematicCharsRegexTest(UpdateTrimmedName(existingUnit, req))
    THEN {Response(400, "Name contains characters that are not allowed", U, 0)}
    ELSE IF /\ UpdateChecksName(existingUnit, req)
            /\ FindDuplicateName(U, UpdateTrimmedName(existingUnit, req),
                                 existingUnit._id) # {}
    THEN {Response(400, "Name already exists", U, 0)}
    ELSE {IF r.error # ""
          THEN Response(400, r.error, U, 0)
          ELSE Response(200, "",
                        UpdateOne(U, existingUnit._id,
                                  UpdatedUnit(existingUnit, req, r.finalIp)),
                        existingUnit._id) :
              r \in UpdateResolveIp(U, existingUnit, req)}

\* the update handler run to completion on collection U
UpdateUnit(U, req) ==
    IF req._id = 0 THEN {Response(400, "ID is required", U, 0)}
    ELSE IF ExistingUnit(U, req) = {} THEN {Response(404, "Unit not found", U, 0)}
    ELSE UNION {UpdateFound(U, e, req) : e \in ExistingUnit(U, req)}

(* ------------------------ DELETE /api/units/{name} --------------------- *)

\* a delete handler that answers 200 whatever deletedCount is
DeleteUnitIgnoringCount(U, name) ==
    IF FindByName(U, name) = {} THEN {Response(200, "", U, 0)}
    ELSE {Response(200, "", U \ {d}, d._id) : d \in FindByName(U, name)}

\* units.deleteOne({ name }) and the response built from deletedCount
DeleteUnit(U, name) ==
    IF FindByName(U, name) = {} THEN {Response(404, "Unit not found", U, 0)}
    ELSE {Response(200, "", U \ {d}, d._id) : d \in FindByName(U, name)}

(* ------------------------ POST /api/units/check-ip --------------------- *)

\* a check-ip handler whose lookup leaves out sharedComputer: { $ne: true }
CheckIpResponseAnyHolder(U, ip) ==
    IF Falsy(ip) \/ ~IPv4RegexTest(ip)
    THEN Response(400, "Invalid IP address format", U, 0)
    ELSE IF {u \in U : u.ip = ip} # {}
    THEN Response(400, "IP Address Already Exists.", U, 0)
    ELSE Response(201, "Available.", U, 0)

\* the check-ip handler: status and message, the collection is only read
CheckIpResponse(U, ip) ==
    IF Falsy(ip) \/ ~IPv4RegexTest(ip)
    THEN Response(400, "Invalid IP address format", U, 0)
    ELSE IF FindByIpNotShared(U, ip) # {}
    THEN Response(400, "IP Address Already Exists.", U, 0)
    ELSE Response(201, "Available.", U, 0)

(* -------------------- POST /api/cablestock/upload ---------------------- *)

\* The Korean header tokens are written syllable by syllable in Latin
\* letters: gu bun (category), jong ryu (type), su ryang and gae su
\* (quantity), ra in (line).  uploadDate is written by the handler and read
\* by no check; it is left out of the snapshot documents.

UpperCase ==
    <<"A", "B", "C", "D", "E", "F", "G", "H", "I", "J", "K", "L", "M",
      "N", "O", "P", "Q", "R", "S", "T", "U", "V", "W", "X", "Y", "Z">>

LowerCase ==
    <<"a", "b", "c", "d", "e", "f", "g", "h", "i", "j", "k", "l", "m",
      "n", "o", "p", "q", "r", "s", "t", "u", "v", "w", "x", "y", "z">>

\* the case folding of the i flag
Fold(c) ==
    IF \E i \in 1..Len(UpperCase) : UpperCase[i] = c
    THEN LowerCase[CHOOSE i \in 1..Len(UpperCase) : UpperCase[i] = c]
    ELSE c

\* s and t are the same string once case is ignored
EqualsIgnoreCase(s, t) ==
    /\ Len(s) = Len(t)
    /\ \A i \in 1..Len(s) : Fold(s[i]) = Fold(t[i])

\* the literal the file name pattern starts with
CableStockLiteral == <<"C", "A", "B", "L", "E", " ", "S", "T", "O", "C", "K">>

\* the literal the file name pattern ends with
XlsxLiteral == <<".", "x", "l", "s", "x">>

\* name[i..] starts with \d{2}\.\d{2}\.\d{4}
DateAt(name, i) ==
    /\ i + 9 <= Len(name)
    /\ \A k \in {0, 1, 3, 4, 6, 7, 8, 9} : name[i + k] \in Digits
    /\ \A k \in {2, 5} : name[i + k] = "."

\* where the pieces of the pattern fall when it is matched from position i on;
\* open and close tell whether the optional "(" and ")" are there
FileNameLayout(name, i) ==
    LET p == i + Len(CableStockLiteral)
        open == IF p <= Len(name) /\ name[p] = "(" THEN 1 ELSE 0
        close == IF p + open + 10 <= Len(name) /\ name[p + open + 10] = ")"
                 THEN 1 ELSE 0
    IN  [date |-> p + open, ext |-> p + open + 10 + close,
         open |-> open, close |-> close]

\* /CABLE STOCK(?:\()(?:\d{2})\.(?:\d{2})\.(?:\d{4})(?:\))\.xlsx/i, the
\* pattern of the upload page, matches name from position i on
FileNameMatchAtWithParens(name, i) ==
    LET lay == FileNameLayout(name, i)
    IN  /\ lay.ext + Len(XlsxLiteral) - 1 <= Len(name)
        /\ EqualsIgnoreCase(SubSeq(name, i, i + Len(CableStockLiteral) - 1),
                            CableStockLiteral)
        /\ lay.open = 1
        /\ DateAt(name, lay.date)
        /\ lay.close = 1
        /\ EqualsIgnoreCase(SubSeq(name, lay.ext, lay.ext + Len(XlsxLiteral) - 1),
                            XlsxLiteral)

\* the pattern without its i flag
FileNameMatchAtCaseSensitive(name, i) ==
    LET lay == FileNameLayout(name, i)
    IN  /\ lay.ext + Len(XlsxLiteral) - 1 <= Len(name)
        /\ SubSeq(name, i, i + Len(CableStockLiteral) - 1) = CableStockLiteral
        /\ DateAt(name, lay.date)
        /\ SubSeq(name, lay.ext, lay.ext + Len(XlsxLiteral) - 1) = XlsxLiteral

\* /CABLE STOCK(?:\(|)(\d{2})\.(\d{2})\.(\d{4})(?:\)|)\.xlsx/i matches name
\* from position i on
FileNameMatchAt(name, i) ==
    LET lay == FileNameLayout(name, i)
    IN  /\ lay.ext + Len(XlsxLiteral) - 1 <= Len(name)
        /\ EqualsIgnoreCase(SubSeq(name, i, i + Len(CableStockLiteral) - 1),
                            CableStockLiteral)
        /\ DateAt(name, lay.date)
        /\ EqualsIgnoreCase(SubSeq(name, lay.ext, lay.ext + Len(XlsxLiteral) - 1),
                            XlsxLiteral)

\* file.name.match(...): the positions the pattern matches from
FileNameMatches(name) == {i \in 1..Len(name) : FileNameMatchAt(name, i)}

\* the leftmost match, the one match() returns
FileNameMatch(name) ==
    CHOOSE i \in FileNameMatches(name) : \A j \in FileNameMatches(name) : i <= j

\* monthKey = `${month}/${year}` of the match
MonthKey(name) ==
    LET d == FileNameLayout(name, FileNameMatch(name)).date
    IN  SubSeq(name, d, d + 1) \o <<"/">> \o SubSeq(name, d + 6, d + 9)

\* the MIME type the upload page asks for
XlsxType == "application/vnd.openxmlformats-officedocument.spreadsheetml.sheet"

\* validateFile of the upload page: the pattern with both parentheses,
\* anchored at the end of the name only, and the file type
ValidateFile(file) ==
    /\ \E i \in 1..Len(file.name) :
          /\ FileNameMatchAtWithParens(file.name, i)
          /\ FileNameLayout(file.name, i).ext + Len(XlsxLiteral) - 1
                 = Len(file.name)
    /\ file.type = XlsxType

(* the worksheet *)

\* a cell value: a string, a number, or no cell at the address
StrCell(x) == [t |-> "string", s |-> x, n |-> 0]

NumCell(k) == [t |-> "number", s |-> <<>>, n |-> k]

NoCell == [t |-> "undefined", s |-> <<>>, n |-> 0]

\* cell && cell.v
CellTruthy(cell) ==
    \/ cell.t = "string" /\ cell.s # <<>>
    \/ cell.t = "number" /\ cell.n # 0

\* worksheet[XLSX.utils.encode_cell({ r, c })], rows and columns from 0
GetCell(ws, r, c) ==
    IF r + 1 <= Len(ws.rows) THEN ws.rows[r + 1][c + 1] ELSE NoCell

\* range.e.r, the last row of the sheet's declared extent
LastRow(ws) == Len(ws.rows) - 1

RECURSIVE TrimStart(_)
TrimStart(x) ==
    IF x = <<>> THEN x
    ELSE IF x[1] \in Whitespace THEN TrimStart(Tail(x))
    ELSE x

\* x.trim()
Trim(x) == TrimStart(TrimEnd(x))

RECURSIVE NatToString(_)
\* the decimal digits of a natural number
NatToString(k) ==
    IF k < 10 THEN <<ToString(k)>>
    ELSE NatToString(k \div 10) \o <<ToString(k % 10)>>

\* String(cell.v)
CellString(cell) ==
    IF cell.t = "string" THEN cell.s
    ELSE IF cell.n < 0 THEN <<"-">> \o NatToString(0 - cell.n)
    ELSE NatToString(cell.n)

RECURSIVE DigitsValue(_)
\* the number a string of digits writes
DigitsValue(g) ==
    IF g = <<>> THEN 0
    ELSE 10 * DigitsValue(SubSeq(g, 1, Len(g) - 1))
         + (CHOOSE d \in 0..9 : ToString(d) = g[Len(g)])

RECURSIVE DigitPrefix(_)
\* the longest prefix of x made of digits
DigitPrefix(x) ==
    IF x = <<>> \/ x[1] \notin Digits THEN <<>>
    ELSE <<x[1]>> \o DigitPrefix(Tail(x))

\* parseInt(x, 10), with NaN told by the field nan
ParseInt(x) ==
    LET y == TrimStart(x)
        signed == y # <<>> /\ y[1] \in {"+", "-"}
        z == IF signed THEN Tail(y) ELSE y
    IN  IF DigitPrefix(z) = <<>> THEN [nan |-> TRUE, n |-> 0]
        ELSE [nan |-> FALSE,
              n |-> IF signed /\ y[1] = "-"
                    THEN 0 - DigitsValue(DigitPrefix(z))
                    ELSE DigitsValue(DigitPrefix(z))]

\* quantity: parseInt of the cell's value, 0 for no cell and for NaN
QuantityOfCell(quantityCell) ==
    IF quantityCell.t = "undefined" THEN 0
    ELSE IF ParseInt(CellString(quantityCell)).nan THEN 0
    ELSE ParseInt(CellString(quantityCell)).n

\* x.includes(sub)
Includes(x, sub) ==
    \E i \in 1..(Len(x) - Len(sub) + 1) : SubSeq(x, i, i + Len(sub) - 1) = sub

\* typeof cell.v === "string" && cell.v.includes(sub)
StringIncludes(cell, sub) == cell.t = "string" /\ Includes(cell.s, sub)

Gubun == <<"gu", "bun">>

Jongryu == <<"jong", "ryu">>

Suryang == <<"su", "ryang">>

Gaesu == <<"gae", "su">>

Rain == <<"ra", "in">>

Linno == <<"L", "I", "N", "N", "O">>

\* the rows 0..5 whose first two cells read the category and type tokens
HeaderRows(ws) ==
    {r \in 0..5 : /\ GetCell(ws, r, 0).t = "string"
                  /\ GetCell(ws, r, 0).s = Gubun
                  /\ GetCell(ws, r, 1).t = "string"
                  /\ GetCell(ws, r, 1).s = Jongryu}

\* headerRow: the first such row, -1 when there is none
HeaderRow(ws) ==
    IF HeaderRows(ws) = {} THEN -1
    ELSE CHOOSE r \in HeaderRows(ws) : \A q \in HeaderRows(ws) : r <= q

\* the four header checks
HeadersValid(ws) ==
    /\ StringIncludes(GetCell(ws, HeaderRow(ws), 0), Gubun)
    /\ StringIncludes(GetCell(ws, HeaderRow(ws), 1), Jongryu)
    /\ \/ StringIncludes(GetCell(ws, HeaderRow(ws), 2), Linno)
       \/ StringIncludes(GetCell(ws, HeaderRow(ws), 2), Rain)
    /\ \/ StringIncludes(GetCell(ws, HeaderRow(ws), 3), Suryang)
       \/ StringIncludes(GetCell(ws, HeaderRow(ws), 3), Gaesu)

\* isMergedCategoryCell: row lies in a merged block of column A
IsMergedCategoryCell(ws, row) ==
    \E merge \in ws.merges : row >= merge.s /\ row <= merge.e

\* currentCategory taken from every category cell that has a value, merged
\* or not
NextCategoryOfAnyCell(ws, row, currentCategory) ==
    IF CellTruthy(GetCell(ws, row, 0))
    THEN Trim(CellString(GetCell(ws, row, 0)))
    ELSE currentCategory

\* currentCategory after the category cell of row has been looked at
NextCategory(ws, row, currentCategory) ==
    IF /\ CellTruthy(GetCell(ws, row, 0))
       /\ \/ ~IsMergedCategoryCell(ws, row)
          \/ \E merge \in ws.merges : merge.s = row
    THEN Trim(CellString(GetCell(ws, row, 0)))
    ELSE currentCategory

\* the item pushed for a row with a type and a current category
RowItem(ws, row, currentCategory) ==
    [type     |-> Trim(currentCategory \o <<"-">>
                       \o Trim(CellString(GetCell(ws, row, 1)))),
     linno    |-> IF GetCell(ws, row, 2).t = "undefined" THEN <<>>
                  ELSE Trim(CellString(GetCell(ws, row, 2))),
     quantity |-> QuantityOfCell(GetCell(ws, row, 3))]

RECURSIVE WalkRows(_, _, _, _)
\* the loop over the rows after the header: items after rows row..LastRow
WalkRows(ws, row, currentCategory, items) ==
    IF row > LastRow(ws) THEN items
    ELSE LET category == NextCategory(ws, row, currentCategory)
         IN  IF ~CellTruthy(GetCell(ws, row, 1)) \/ category = <<>>
             THEN WalkRows(ws, row + 1, category, items)
             ELSE WalkRows(ws, row + 1, category,
                           Append(items, RowItem(ws, row, category)))

\* items: what the handler parses from a sheet whose header row is valid
ParseItems(ws) == WalkRows(ws, HeaderRow(ws) + 1, <<>>, <<>>)

(* the handler *)

\* cablestock.find({ month })
FindByMonth(C, month) == {d \in C : d.month = month}

\* an update that pushes the new items after the stored ones
UpsertSnapshotAppending(C, month, items) ==
    IF FindByMonth(C, month) = {}
    THEN {C \cup {[_id |-> Cardinality(C) + 1, month |-> month, items |-> items]}}
    ELSE {(C \ {d}) \cup {[d EXCEPT !.items = d.items \o items]} :
              d \in FindByMonth(C, month)}

\* cablestock.updateOne({ month }, { $set: { items, uploadDate } },
\* { upsert: true }): the collections it can leave
UpsertSnapshot(C, month, items) ==
    IF FindByMonth(C, month) = {}
    THEN {C \cup {[_id |-> Cardinality(C) + 1, month |-> month, items |-> items]}}
    ELSE {(C \ {d}) \cup {[d EXCEPT !.items = items]} :
              d \in FindByMonth(C, month)}

\* formData.get("file") when the form has no file
NoFile == [name |-> UNDEFINED, type |-> "", readable |-> FALSE, sheets |-> <<>>]

\* what the upload handler did: read tells whether it went on to read the
\* file (file.arrayBuffer and XLSX.read)
UploadResponse(status, error, C, read, month, items) ==
    [status |-> status, error |-> error, cablestock |-> C, read |-> read,
     month |-> month, items |-> items]

\* the handler from the workbook on, without the check for zero items
UploadWorkbookStoringAnyItems(C, file) ==
    IF ~file.readable
    THEN {UploadResponse(500, "Error processing file", C, TRUE, <<>>, <<>>)}
    ELSE IF Len(file.sheets) = 0
    THEN {UploadResponse(400, "Excel file has no sheets", C, TRUE, <<>>, <<>>)}
    ELSE IF HeaderRow(file.sheets[1]) = -1
    THEN {UploadResponse(400, "Could not find header row", C, TRUE, <<>>, <<>>)}
    ELSE IF ~HeadersValid(file.sheets[1])
    THEN {UploadResponse(400, "Header validation failed", C, TRUE, <<>>, <<>>)}
    ELSE {UploadResponse(200, "", D, TRUE, MonthKey(file.name),
                         ParseItems(file.sheets[1])) :
              D \in UpsertSnapshot(C, MonthKey(file.name),
                                   ParseItems(file.sheets[1]))}

\* the handler from the workbook on
UploadWorkbook(C, file) ==
    IF ~file.readable
    THEN {UploadResponse(500, "Error processing file", C, TRUE, <<>>, <<>>)}
    ELSE IF Len(file.sheets) = 0
    THEN {UploadResponse(400, "Excel file has no sheets", C, TRUE, <<>>, <<>>)}
    ELSE IF HeaderRow(file.sheets[1]) = -1
    THEN {UploadResponse(400, "Could not find header row", C, TRUE, <<>>, <<>>)}
    ELSE IF ~HeadersValid(file.sheets[1])
    THEN {UploadResponse(400, "Header validation failed", C, TRUE, <<>>, <<>>)}
    ELSE IF ParseItems(file.sheets[1]) = <<>>
    THEN {UploadResponse(400, "No valid items found in file", C, TRUE, <<>>, <<>>)}
    ELSE {UploadResponse(200, "", D, TRUE, MonthKey(file.name),
                         ParseItems(file.sheets[1])) :
              D \in UpsertSnapshot(C, MonthKey(file.name),
                                   ParseItems(file.sheets[1]))}

\* the upload handler run to completion on collection C
UploadFile(C, file) ==
    IF file = NoFile
    THEN {UploadResponse(400, "No file provided", C, FALSE, <<>>, <<>>)}
    ELSE IF FileNameMatches(file.name) = {}
    THEN {UploadResponse(400, "Invalid filename format", C, FALSE, <<>>, <<>>)}
    ELSE UploadWorkbook(C, file)

(* the files the clients send *)

FileJan15 ==
    <<"C", "A", "B", "L", "E", " ", "S", "T", "O", "C", "K", "(", "0", "1",
      ".", "1", "5", ".", "2", "0", "2", "4", ")", ".", "x", "l", "s", "x">>

FileJan20Lower ==
    <<"c", "a", "b", "l", "e", " ", "s", "t", "o", "c", "k", "(", "0", "1",
      ".", "2", "0", ".", "2", "0", "2", "4", ")", ".", "x", "l", "s", "x">>

FileFeb ==
    <<"C", "A", "B", "L", "E", " ", "S", "T", "O", "C", "K", "(", "0", "2",
      ".", "0", "1", ".", "2", "0", "2", "4", ")", ".", "x", "l", "s", "x">>

FileNoParens ==
    <<"C", "A", "B", "L", "E", " ", "S", "T", "O", "C", "K", "0", "3", ".",
      "0", "1", ".", "2", "0", "2", "4", ".", "x", "l", "s", "x">>

FileWrapped ==
    <<"o", "l", "d", " ", "C", "A", "B", "L", "E", " ", "S", "T", "O", "C",
      "K", "(", "0", "3", ".", "0", "1", ".", "2", "0", "2", "4", ")", ".",
      "x", "l", "s", "x", ".", "b", "a", "k">>

FileSpaced ==
    <<"C", "A", "B", "L", "E", " ", "S", "T", "O", "C", "K", " ", "0", "1",
      ".", "1", "5", ".", "2", "0", "2", "4", ".", "x", "l", "s", "x">>

FilePdf ==
    <<"C", "A", "B", "L", "E", " ", "S", "T", "O", "C", "K", "(", "0", "1",
      ".", "1", "5", ".", "2", "0", "2", "4", ")", ".", "p", "d", "f">>

FilePlain ==
    <<"s", "t", "o", "c", "k", ".", "x", "l", "s", "x">>

FileNames ==
    {FileJan15, FileJan20Lower, FileFeb, FileNoParens, FileWrapped,
     FileSpaced, FilePdf, FilePlain}

HeaderCells ==
    <<StrCell(Gubun), StrCell(Jongryu), StrCell(Linno), StrCell(Suryang)>>

\* header in row 0, a category that carries over to a row without one
SheetA ==
    [rows |-> <<HeaderCells,
                <<StrCell(<<"A">>), StrCell(<<"X">>), StrCell(<<"L", "1">>),
                  NumCell(10)>>,
                <<NoCell, StrCell(<<"Y">>), NoCell, StrCell(<<"7">>)>>>>,
     merges |-> {}]

\* a title row above the header, a merged category block, a row without a
\* type and a quantity that is no number
SheetB ==
    [rows |-> <<<<StrCell(<<"s", "t", "o", "c", "k">>), NoCell, NoCell, NoCell>>,
                HeaderCells,
                <<StrCell(<<"A", " ">>), StrCell(<<"X">>), StrCell(<<"L", "2">>),
                  NumCell(6)>>,
                <<StrCell(<<"B">>), NoCell, NoCell, NumCell(3)>>,
                <<StrCell(<<"C">>), StrCell(<<"Z">>), StrCell(<<" ", "L", "3">>),
                  StrCell(<<"n", "/", "a">>)>>>>,
     merges |-> {[s |-> 2, e |-> 4]}]

\* no row reads the category and type tokens
SheetNoHeader ==
    [rows |-> <<<<StrCell(<<"A">>), StrCell(<<"X">>), StrCell(<<"L", "1">>),
                  NumCell(10)>>>>,
     merges |-> {}]

\* the quantity header reads something else
SheetBadHeader ==
    [rows |-> <<<<StrCell(Gubun), StrCell(Jongryu), StrCell(Linno),
                  StrCell(<<"q", "t", "y">>)>>,
                <<StrCell(<<"A">>), StrCell(<<"X">>), StrCell(<<"L", "1">>),
                  NumCell(10)>>>>,
     merges |-> {}]

\* a header and no row with a type
SheetNoItems ==
    [rows |-> <<HeaderCells, <<StrCell(<<"A">>), NoCell, NoCell, NumCell(1)>>>>,
     merges |-> {}]

\* the workbooks: a list of sheets, or bytes XLSX.read throws on
Workbooks ==
    {[readable |-> TRUE, sheets |-> <<SheetA>>],
     [readable |-> TRUE, sheets |-> <<SheetB, SheetA>>],
     [readable |-> TRUE, sheets |-> <<SheetNoHeader>>],
     [readable |-> TRUE, sheets |-> <<SheetBadHeader>>],
     [readable |-> TRUE, sheets |-> <<SheetNoItems>>],
     [readable |-> TRUE, sheets |-> <<>>],
     [readable |-> FALSE, sheets |-> <<>>]}

\* the files of a request: every name with every workbook, one file of
\* another type, and the form without a file
UploadFiles ==
    {[name |-> n, type |-> XlsxType, readable |-> w.readable,
      sheets |-> w.sheets] : n \in FileNames, w \in Workbooks}
    \cup {[name |-> FilePdf, type |-> "application/pdf", readable |-> FALSE,
            sheets |-> <<>>]}
    \cup {NoFile}

(* ------------------ consumption between two snapshots ----------------- *)

\* the characters of the identifiers in collation order
CollationOrder ==
    <<"0", "1", "2", "3", "4", "5", "6", "7", "8", "9">> \o UpperCase

\* the place of a character in the collation order
Rank(c) == CHOOSE i \in 1..Len(CollationOrder) : CollationOrder[i] = c

RECURSIVE LocaleCompareReceiverLast(_, _)
\* b.localeCompare(a): the comparison with receiver and argument exchanged
LocaleCompareReceiverLast(a, b) ==
    IF a = <<>> /\ b = <<>> THEN 0
    ELSE IF a = <<>> THEN 1
    ELSE IF b = <<>> THEN -1
    ELSE IF Rank(a[1]) < Rank(b[1]) THEN 1
    ELSE IF Rank(a[1]) > Rank(b[1]) THEN -1
    ELSE LocaleCompareReceiverLast(Tail(a), Tail(b))

RECURSIVE LocaleCompare(_, _)
\* a.localeCompare(b) for strings of digits and capital letters: negative,
\* zero or positive
LocaleCompare(a, b) ==
    IF a = <<>> /\ b = <<>> THEN 0
    ELSE IF a = <<>> THEN -1
    ELSE IF b = <<>> THEN 1
    ELSE IF Rank(a[1]) < Rank(b[1]) THEN -1
    ELSE IF Rank(a[1]) > Rank(b[1]) THEN 1
    ELSE LocaleCompare(Tail(a), Tail(b))

\* Math.abs
Abs(x) == IF x < 0 THEN 0 - x ELSE x

\* items.find((item) => item.type === type): the places of the items of
\* that type, the first of which find returns
PlacesOfType(items, type) == {i \in 1..Len(items) : items[i].type = type}

FirstOfType(items, type) ==
    items[CHOOSE i \in PlacesOfType(items, type) :
              \A j \in PlacesOfType(items, type) : i <= j]

\* toQuantity
ToQuantity(toItems, type) ==
    IF PlacesOfType(toItems, type) = {} THEN 0
    ELSE FirstOfType(toItems, type).quantity

\* toLinno
ToLinno(toItems, type) ==
    IF PlacesOfType(toItems, type) = {} THEN <<>>
    ELSE FirstOfType(toItems, type).linno

\* a difference taken as what left the stock
QuantityDifferenceConsumed(fromQuantity, toQuantity) == fromQuantity - toQuantity

\* quantityDifference
QuantityDifference(fromQuantity, toQuantity) == toQuantity - fromQuantity

\* a used quantity that takes the magnitude whatever the sign
UsedQuantityMagnitude(quantityDifference) == Abs(quantityDifference)

\* usedQuantity
UsedQuantity(quantityDifference) ==
    IF quantityDifference >= 0 THEN quantityDifference ELSE 0

\* instockQuantity
InstockQuantity(quantityDifference) ==
    IF quantityDifference >= 0 THEN 0 ELSE Abs(quantityDifference)

\* a rate: (part / whole * 100).toFixed(2) + "%", kept as the number of
\* hundredths of a percent; a division by zero gives NaN or an infinity
Rate(part, whole) ==
    IF whole = 0
    THEN [kind |-> IF part = 0 THEN "NaN"
                   ELSE IF part > 0 THEN "Infinity" ELSE "-Infinity",
          hundredths |-> 0]
    ELSE [kind |-> "number",
          hundredths |-> IF part >= 0
                         THEN (2 * part * 10000 + whole) \div (2 * whole)
                         ELSE 0 - ((2 * (0 - part) * 10000 + whole)
                                        \div (2 * whole))]

\* the literal rates "0%" and "100%"
RateZero == [kind |-> "number", hundredths |-> 0]

RateFull == [kind |-> "number", hundredths |-> 10000]

\* the record of fetchConsumptionData for an item of the from snapshot
ItemFromFrom(fromItem, toItems) ==
    LET toQuantity == ToQuantity(toItems, fromItem.type)
        toLinno == ToLinno(toItems, fromItem.type)
        quantityDifference == QuantityDifference(fromItem.quantity, toQuantity)
        linnoDifference == LocaleCompare(toLinno, fromItem.linno)
        linnoChanged == fromItem.linno # toLinno
    IN  [type            |-> fromItem.type,
         linno           |-> fromItem.linno,
         fromQuantity    |-> fromItem.quantity,
         toQuantity      |-> toQuantity,
         consumption     |-> Abs(quantityDifference),
         consumptionRate |-> IF fromItem.quantity > 0
                             THEN Rate(Abs(quantityDifference), fromItem.quantity)
                             ELSE RateZero,
         toLinno         |-> toLinno,
         linnoChanged    |-> linnoChanged,
         instock         |-> 0,
         usedLinno       |-> IF linnoChanged /\ linnoDifference >= 0
                             THEN toLinno ELSE <<>>,
         instockLinno    |-> IF linnoChanged /\ linnoDifference < 0
                             THEN toLinno ELSE <<>>,
         usedQuantity    |-> UsedQuantity(quantityDifference),
         instockQuantity |-> InstockQuantity(quantityDifference)]

\* the record of fetchConsumptionData for an item of the to snapshot whose
\* type the from snapshot does not have
ItemOnlyInTo(toItem) ==
    [type            |-> toItem.type,
     linno           |-> <<>>,
     fromQuantity    |-> 0,
     toQuantity      |-> toItem.quantity,
     consumption     |-> toItem.quantity,
     consumptionRate |-> RateFull,
     toLinno         |-> toItem.linno,
     linnoChanged    |-> toItem.linno # <<>>,
     instock         |-> 0,
     usedLinno       |-> toItem.linno,
     instockLinno    |-> <<>>,
     usedQuantity    |-> toItem.quantity,
     instockQuantity |-> 0]

\* itemsFromFrom
ItemsFromFrom(fromItems, toItems) ==
    [i \in 1..Len(fromItems) |-> ItemFromFrom(fromItems[i], toItems)]

\* itemsOnlyInTo without its filter: a record for every item of the to
\* snapshot
ItemsOnlyInToUnfiltered(fromItems, toItems) ==
    [i \in 1..Len(toItems) |-> ItemOnlyInTo(toItems[i])]

\* itemsOnlyInTo
ItemsOnlyInTo(fromItems, toItems) ==
    LET OnlyInTo(toItem) == PlacesOfType(fromItems, toItem.type) = {}
        only == SelectSeq(toItems, OnlyInTo)
    IN  [i \in 1..Len(only) |-> ItemOnlyInTo(only[i])]

\* stockData.find(...) or findOne({ month }) that found no snapshot
NoSnapshot == [found |-> FALSE, items |-> <<>>]

\* fetchConsumptionData of the stock page on the two snapshots it looked up
FetchConsumptionData(fromData, toData) ==
    IF ~fromData.found \/ ~toData.found
    THEN [status |-> 0, error |-> "Could not find data for selected months",
          items |-> <<>>]
    ELSE [status |-> 0, error |-> "",
          items |-> ItemsFromFrom(fromData.items, toData.items)
                    \o ItemsOnlyInTo(fromData.items, toData.items)]

\* the record of GET /api/cablestock/compare for an item of the from snapshot
CompareItem(fromItem, toItems) ==
    [type            |-> fromItem.type,
     linno           |-> fromItem.linno,
     fromQuantity    |-> fromItem.quantity,
     toQuantity      |-> ToQuantity(toItems, fromItem.type),
     consumption     |-> fromItem.quantity - ToQuantity(toItems, fromItem.type),
     consumptionRate |-> IF PlacesOfType(toItems, fromItem.type) # {}
                         THEN Rate(fromItem.quantity
                                     - ToQuantity(toItems, fromItem.type),
                                   fromItem.quantity)
                         ELSE RateFull]

\* GET /api/cablestock/compare on the two snapshots it looked up
CompareSnapshots(fromData, toData) ==
    IF ~fromData.found \/ ~toData.found
    THEN [status |-> 404, error |-> "Data not found for comparison months",
          items |-> <<>>]
    ELSE [status |-> 200, error |-> "",
          items |-> [i \in 1..Len(fromData.items) |->
                        CompareItem(fromData.items[i], toData.items)]]

(* the snapshots that are compared *)

TypeAX == <<"A", "-", "X">>

TypeAY == <<"A", "-", "Y">>

LinnoL1 == <<"L", "1">>

LinnoL2 == <<"L", "2">>

QuantitySix == 6

QuantityTen == 10

CableStockItems ==
    [type : {TypeAX, TypeAY}, linno : {LinnoL1, LinnoL2},
     quantity : {QuantitySix, QuantityTen}]

Snapshots ==
    {[found |-> TRUE, items |-> items] :
         items \in UNION {[1..n -> CableStockItems] : n \in 0..MaxItems}}
    \cup {NoSnapshot}

(* ------------------------------ inventory ------------------------------ *)

\* An inventory document carries _id, item, location and quantity; EOS, note
\* and updated are written from the request and the clock, are read by no
\* check, and are left out.

RECURSIVE DecodeURIComponent(_)
\* decodeURIComponent(x) for the escape %20; the value is <<"URIError">>
\* when another escape makes it throw
DecodeURIComponent(x) ==
    IF x = <<>> THEN x
    ELSE IF x[1] # "%"
    THEN IF DecodeURIComponent(Tail(x)) = <<"URIError">> THEN <<"URIError">>
         ELSE <<x[1]>> \o DecodeURIComponent(Tail(x))
    ELSE IF Len(x) >= 3 /\ x[2] = "2" /\ x[3] = "0"
    THEN IF DecodeURIComponent(SubSeq(x, 4, Len(x))) = <<"URIError">>
         THEN <<"URIError">>
         ELSE <<" ">> \o DecodeURIComponent(SubSeq(x, 4, Len(x)))
    ELSE <<"URIError">>

\* inventory.find({ item, location })
FindByItemLocation(I, item, location) ==
    {d \in I : d.item = item /\ d.location = location}

\* inventory.find({ item }): findOne, updateOne and deleteOne take the first
\* of these in natural order, which can be any of them
FindByItem(I, item) == {d \in I : d.item = item}

\* an _id no stored document has
NewInventoryId(I) ==
    CHOOSE id \in 1..(Cardinality(I) + 1) : \A d \in I : d._id # id

InventoryResponse(status, error, I, id) ==
    [status |-> status, error |-> error, inventory |-> I, id |-> id]

\* POST /api/inventory run to completion on collection I
CreateInventoryItem(I, req) ==
    IF Falsy(req.item)
    THEN {InventoryResponse(400, "Item name is required", I, 0)}
    ELSE IF req.location = ""
    THEN {InventoryResponse(400, "Location is required", I, 0)}
    ELSE IF FindByItemLocation(I, Trim(req.item), req.location) # {}
    THEN {InventoryResponse(400, "Item already exists in this location", I, 0)}
    ELSE {InventoryResponse(201, "",
              I \cup {[_id      |-> NewInventoryId(I),
                       item     |-> Trim(req.item),
                       location |-> req.location,
                       quantity |-> req.quantity]},
              NewInventoryId(I))}

\* PUT /api/inventory/{item} run to completion on collection I
UpdateInventoryItem(I, item, req) ==
    IF item = <<>>
    THEN {InventoryResponse(400, "Item name is required", I, 0)}
    ELSE IF DecodeURIComponent(item) = <<"URIError">>
    THEN {InventoryResponse(500, "Server Error", I, 0)}
    ELSE IF FindByItem(I, DecodeURIComponent(item)) = {}
    THEN {InventoryResponse(404, "Item not found", I, 0)}
    ELSE {InventoryResponse(200, "",
              (I \ {d}) \cup {[d EXCEPT !.quantity = req.quantity,
                                        !.location = req.location]},
              d._id) :
            d \in FindByItem(I, DecodeURIComponent(item))}

\* DELETE /api/inventory/{item} run to completion on collection I
DeleteInventoryItem(I, item) ==
    IF item = <<>>
    THEN {InventoryResponse(400, "Item name is required", I, 0)}
    ELSE IF DecodeURIComponent(item) = <<"URIError">>
    THEN {InventoryResponse(500, "Server Error", I, 0)}
    ELSE IF FindByItem(I, DecodeURIComponent(item)) = {}
    THEN {InventoryResponse(404, "Item not found", I, 0)}
    ELSE {InventoryResponse(200, "", I \ {d}, d._id) :
              d \in FindByItem(I, DecodeURIComponent(item))}

(* the requests on the inventory *)

ItemHub == <<"h", "u", "b">>

ItemHubPadded == <<" ", "h", "u", "b", " ">>

ItemHubEscaped == <<"h", "u", "b", "%", "2", "0">>

ItemCable == <<"c", "a", "b", "l", "e">>

ItemPercent == <<"5", "0", "%">>

\* item of a request body
InventoryItemInputs == {UNDEFINED, ItemHub, ItemHubPadded, ItemCable}

\* the item parameter of the path
InventoryItemParams == {ItemHub, ItemCable, ItemHubEscaped, ItemPercent}

\* location of a request body; "" stands for a body without one
LocationInputs == {"", "Wiley", "Redding"}

QuantityInputs == {1, 2}

InventoryCreateRequests ==
    [item : InventoryItemInputs, location : LocationInputs,
     quantity : QuantityInputs]

\* the body of an update as the inventory pages send it, with a location
InventoryUpdateRequests ==
    [location : LocationInputs \ {""}, quantity : QuantityInputs]

(* ------------------ available addresses of a gateway ------------------- *)
(* Two pages list the available addresses: IPListPage                      *)
(* (gatewayAvailableIps) and the earlier SubnetPage (checkIps).  The       *)
(* assigned addresses are a set, since the pages only ask whether an       *)
(* address is included; the result is a Map, kept as the sequence of its   *)
(* entries in insertion order.                                             *)

\* Math.min(a, b)
MathMin(a, b) == IF a < b THEN a ELSE b

RECURSIVE JoinDots(_)
\* parts.join(".")
JoinDots(parts) ==
    IF Len(parts) = 0 THEN <<>>
    ELSE IF Len(parts) = 1 THEN parts[1]
    ELSE parts[1] \o <<".">> \o JoinDots(Tail(parts))

\* gateway.ip.split(".").slice(0, 3).join(".")
BaseIp(ip) ==
    LET parts == SplitDots(ip)
    IN  JoinDots(SubSeq(parts, 1, MathMin(3, Len(parts))))

\* s.padStart(3, "0")
PadStart3(s) ==
    IF Len(s) >= 3 THEN s
    ELSE [k \in 1..(3 - Len(s)) |-> "0"] \o s

\* the largest host number the list page shows
MaxHost == 254

\* .filter(Boolean) on the addresses of the units
FilterBoolean(ips) == {ip \in ips : ip # <<>>}

RECURSIVE AvailableIpsList(_, _, _, _)
\* for (let i = ...; i <= maxRange; i++) of one gateway, from i on: what
\* the iterations from i to maxRange push, in order.  The iterations are
\* taken as those of the lower half followed by those of the upper half,
\* which keeps the evaluation shallow for a range of some hundred hosts.
AvailableIpsList(baseIp, i, maxRange, usedIps) ==
    IF i > maxRange THEN <<>>
    ELSE IF i = maxRange
    THEN LET ip == baseIp \o <<".">> \o NatToString(i)
         IN  IF ip \notin usedIps
             THEN <<PadStart3(NatToString(i))>>
             ELSE <<>>
    ELSE LET half == (i + maxRange) \div 2
         IN  AvailableIpsList(baseIp, i, half, usedIps)
             \o AvailableIpsList(baseIp, half + 1, maxRange, usedIps)

\* map.set(key, value)
MapSet(map, key, value) ==
    IF \E k \in 1..Len(map) : map[k].key = key
    THEN [k \in 1..Len(map) |->
             IF map[k].key = key THEN [key |-> key, value |-> value]
             ELSE map[k]]
    ELSE Append(map, [key |-> key, value |-> value])

\* map.has(key)
MapHas(map, key) == \E k \in 1..Len(map) : map[k].key = key

\* map.get(key), of a key the map has
MapGet(map, key) ==
    map[CHOOSE k \in 1..Len(map) : map[k].key = key].value

RECURSIVE GatewayAvailableIpsFrom(_, _, _, _)
\* gateways.forEach of IPListPage from gateway g on, result so far given
GatewayAvailableIpsFrom(gateways, g, usedIps, result) ==
    IF g > Len(gateways) THEN result
    ELSE LET gateway == gateways[g]
             maxRange == MathMin(gateway.range, MaxHost)
         IN  GatewayAvailableIpsFrom(gateways, g + 1, usedIps,
                 MapSet(result, gateway.ip,
                        AvailableIpsList(BaseIp(gateway.ip), 1, maxRange,
                                         usedIps)))

\* IPListPage: the available last octets of every gateway
GatewayAvailableIps(gateways, usedIps) ==
    GatewayAvailableIpsFrom(gateways, 1, usedIps, <<>>)

RECURSIVE CheckIpsFrom(_, _, _, _)
\* for (const gateway of gateways) of SubnetPage from gateway g on
CheckIpsFrom(gateways, g, nonavailableIps, availableIpsMap) ==
    IF g > Len(gateways) THEN availableIpsMap
    ELSE LET gateway == gateways[g]
         IN  CheckIpsFrom(gateways, g + 1, nonavailableIps,
                 MapSet(availableIpsMap, gateway.ip,
                        AvailableIpsList(BaseIp(gateway.ip), 1,
                                         gateway.range, nonavailableIps)))

\* SubnetPage: the available last octets of every gateway
CheckIps(gateways, nonavailableIps) ==
    CheckIpsFrom(gateways, 1, nonavailableIps, <<>>)

GatewayIpA == <<"1", "0", ".", "0", ".", "0", ".", "1">>
GatewayIpB == <<"1", "0", ".", "0", ".", "1", ".", "1">>
GatewayIpC == <<"1", "0", ".", "0", ".", "2", ".", "2", "5", "4">>

GatewayIps == {GatewayIpA, GatewayIpB, GatewayIpC}

\* range of a gateway: none, a few, the whole block, one more than that
RangeInputs == {0, 3, 254, 255}

Gateways == [ip : GatewayIps, range : RangeInputs]

\* the configured gateway lists; no address is configured twice
GatewayLists ==
    {gs \in UNION {[1..n -> Gateways] : n \in 0..MaxGateways} :
        \A a, b \in 1..Len(gs) : gs[a].ip = gs[b].ip => a = b}

\* addresses of units: a host of the first gateway's block, its broadcast
\* address, and the empty address of a unit without one
UnitIps ==
    {<<>>, <<"1", "0", ".", "0", ".", "0", ".", "2">>,
     <<"1", "0", ".", "0", ".", "0", ".", "2", "5", "5">>}

UsedIpSets == SUBSET UnitIps

(* ------------------------------- ipToInt ------------------------------- *)
(* A JavaScript number that is an integer is the record [hi, lo] of its   *)
(* value hi * 65536 + lo with lo in 0..65535, so that values up to 2^32   *)
(* are told apart; hi is negative for a negative number.  The accumulator *)
(* of the reduction is an integer or NaN.                                  *)

\* the number n
Num(n) == [hi |-> n \div 65536, lo |-> n % 65536]

\* a < b, for numbers
NumLess(a, b) == a.hi < b.hi \/ (a.hi = b.hi /\ a.lo < b.lo)

\* acc << 8: the low 32 bits of acc * 256, read as a signed 32-bit integer;
\* NaN << 8 is 0
ShiftLeft8(acc) ==
    IF acc.nan THEN 0
    ELSE LET low24 == acc.n % 16777216
         IN  IF low24 >= 8388608 THEN (low24 - 16777216) * 256
             ELSE low24 * 256

\* (acc << 8) + parseInt(octet, 10)
AddOctet(acc, octet) ==
    LET p == ParseInt(octet)
    IN  IF p.nan THEN [nan |-> TRUE, n |-> 0]
        ELSE [nan |-> FALSE, n |-> ShiftLeft8(acc) + p.n]

RECURSIVE Reduce(_, _)
\* parts.reduce((acc, octet) => ..., acc)
Reduce(parts, acc) ==
    IF parts = <<>> THEN acc
    ELSE Reduce(Tail(parts), AddOctet(acc, parts[1]))

\* acc >>> 0: the low 32 bits of acc, read as an unsigned integer; 0 for NaN
UnsignedShiftRight0(acc) ==
    IF acc.nan THEN Num(0)
    ELSE [hi |-> (acc.n \div 65536) % 65536, lo |-> acc.n % 65536]

\* ipToInt without the unsigned shift of its result
IpToIntSigned(ip) ==
    IF Falsy(ip) THEN Num(0)
    ELSE LET acc == Reduce(SplitDots(ip), [nan |-> FALSE, n |-> 0])
         IN  IF acc.nan THEN Num(0) ELSE Num(acc.n)

\* ipToInt(ip)
IpToInt(ip) ==
    IF Falsy(ip) THEN Num(0)
    ELSE UnsignedShiftRight0(Reduce(SplitDots(ip), [nan |-> FALSE, n |-> 0]))

\* octets of the addresses that are converted: the least, the greatest, and
\* the least that sets the top bit of its byte
OctetInputs == {<<"0">>, <<"1", "2", "8">>, <<"2", "5", "5">>}

IpExample == <<"1", "9", "2", ".", "1", "6", "8", ".", "1", ".", "1">>
IpLeadingZero == <<"0", "1", "0", ".", "1", ".", "1", ".", "9">>
IpBelowTopBit == <<"1", "2", "7", ".", "2", "5", "5", ".", "2", "5", "5", ".", "2", "5", "5">>
IpNotANumber == <<"1", ".", "x", ".", "1", ".", "1">>

\* the addresses that are converted
IpToIntInputs ==
    {a \o <<".">> \o b \o <<".">> \o c \o <<".">> \o d :
        a \in OctetInputs, b \in OctetInputs, c \in OctetInputs,
        d \in OctetInputs}
    \cup {IpExample, IpLeadingZero, IpBelowTopBit, IpNotANumber, <<>>}

(* ------------------------- listing the units --------------------------- *)
(* GET /api/units sorts in the database; the units page sorts what it got *)
(* once more with ipToInt.  A list of units is a sequence of documents.   *)

\* the characters of the stored addresses in the order of their code units
CodeUnitOrder == <<".", "/", "0", "1", "2", "3", "4", "5", "6", "7", "8", "9">>

CodeUnit(c) == CHOOSE i \in 1..Len(CodeUnitOrder) : CodeUnitOrder[i] = c

RECURSIVE BinaryLess(_, _)
\* a sorts before b in the simple binary comparison of strings that the
\* database uses without a collation
BinaryLess(a, b) ==
    IF b = <<>> THEN FALSE
    ELSE IF a = <<>> THEN TRUE
    ELSE IF a[1] # b[1] THEN CodeUnit(a[1]) < CodeUnit(b[1])
    ELSE BinaryLess(Tail(a), Tail(b))

\* the ways to put the documents of U in a row
Orderings(U) ==
    {s \in [1..Cardinality(U) -> U] :
        \A i, j \in 1..Cardinality(U) : s[i] = s[j] => i = j}

\* units.find({}).sort({ ip: 1 }).toArray(): documents with equal ip come
\* in any order
FindSortedByIp(U) ==
    {s \in Orderings(U) :
        \A i, j \in 1..Len(s) : i < j => ~BinaryLess(s[j].ip, s[i].ip)}

\* GET /api/units
GetUnits(U) == FindSortedByIp(U)

\* s.toLowerCase()
ToLowerCase(s) == [i \in 1..Len(s) |-> Fold(s[i])]

\* the filter of the units page
MatchesSearch(unit, search) ==
    \/ Includes(ToLowerCase(unit.name), ToLowerCase(search))
    \/ (Truthy(unit.ip) /\ Includes(unit.ip, search))

\* the comparator of the units page: negative, zero or positive
CompareUnits(a, b) ==
    IF Falsy(a.ip) THEN 1
    ELSE IF Falsy(b.ip) THEN -1
    ELSE IF NumLess(IpToInt(a.ip), IpToInt(b.ip)) THEN -1
    ELSE IF NumLess(IpToInt(b.ip), IpToInt(a.ip)) THEN 1
    ELSE 0

RECURSIVE InsertSorted(_, _)
\* x put into the sorted row: behind the last element that the comparator
\* does not place after x
InsertSorted(sorted, x) ==
    IF sorted = <<>> THEN <<x>>
    ELSE IF CompareUnits(sorted[Len(sorted)], x) > 0
    THEN Append(InsertSorted(SubSeq(sorted, 1, Len(sorted) - 1), x),
                sorted[Len(sorted)])
    ELSE Append(sorted, x)

RECURSIVE SortUnits(_)
\* list.sort(comparator), a stable sort by insertion
SortUnits(list) ==
    IF list = <<>> THEN <<>>
    ELSE InsertSorted(SortUnits(SubSeq(list, 1, Len(list) - 1)),
                      list[Len(list)])

\* those of list that pass test, in order
FilterUnits(list, search) ==
    LET kept == {i \in 1..Len(list) : MatchesSearch(list[i], search)}
        nth(k) == CHOOSE i \in kept : Cardinality({j \in kept : j <= i}) = k
    IN  [k \in 1..Cardinality(kept) |-> list[nth(k)]]

\* filteredUnits of the units page
FilteredUnits(list, search) == SortUnits(FilterUnits(list, search))

NameC == <<"c">>
IpTen == <<"1", ".", "1", ".", "1", ".", "1", "0">>
IpHigh == <<"2", "0", "0", ".", "1", ".", "1", ".", "1">>

\* the units that are created before a listing: not shared, with or without
\* an address
ListCreateRequests ==
    [name : {NameA, NameB, NameC}, ip : {UNDEFINED, IpTwo, IpTen, IpHigh},
     sharedComputer : {"undefined"}, primaryUser : {UNDEFINED}]

\* what is typed into the search field
SearchInputs == {<<>>, <<"A">>, <<"1", ".", "1", "0">>}

(* ------------------- requests served one at a time --------------------- *)

\* the concurrent requests of SpecRace; none is in flight under Spec
Procs == {1, 2}

IdleProc ==
    [pc |-> "idle",
     req |-> [name |-> UNDEFINED, ip |-> UNDEFINED,
              sharedComputer |-> "undefined", primaryUser |-> UNDEFINED],
     finalIp |-> UNDEFINED, status |-> 0, error |-> "", id |-> 0]

\* what the last request was and how it was answered; name is the name of a
\* delete request, ip is the ip of a check-ip request, hadPrimary tells that
\* a create or update dropped a primaryUser that the request supplied or the
\* stored document held
Last(op, o, name, ip, hadPrimary) ==
    [op |-> op, id |-> o.id, status |-> o.status, error |-> o.error,
     name |-> name, ip |-> ip, hadPrimary |-> hadPrimary]

\* no request has been answered since the server last went idle
NoLast ==
    [op |-> "none", id |-> 0, status |-> 0, error |-> "",
     name |-> UNDEFINED, ip |-> UNDEFINED, hadPrimary |-> FALSE]

\* no upload request has been answered yet
NoUpload ==
    [name |-> UNDEFINED, file |-> NoFile, status |-> 0, error |-> "",
     read |-> FALSE, month |-> <<>>, items |-> <<>>, replaced |-> FALSE]

\* no comparison is on display
NoConsumption ==
    [by |-> "none", fromData |-> NoSnapshot, toData |-> NoSnapshot,
     status |-> 0, error |-> "", items |-> <<>>]

\* no request on the inventory has been answered since the server last
\* went idle
NoInventoryLast ==
    [op |-> "none", item |-> <<>>, location |-> "", status |-> 0,
     error |-> "", id |-> 0]

\* no page of available addresses is on display
NoAvailableIps ==
    [by |-> "none", gateways |-> <<>>, usedIps |-> {}, result |-> <<>>]

\* no address has been converted
NoIpInts ==
    [done |-> FALSE, x |-> <<>>, y |-> <<>>, ix |-> Num(0), iy |-> Num(0)]

\* no listing is on display
NoUnitList == [by |-> "none", search |-> <<>>, data |-> <<>>]

\* the calls of connectToDatabase that can be in progress at one time: the
\* call at server start and the calls of request handlers
Callers == {1, 2}

\* a caller that is not inside connectToDatabase
IdleCall == [pc |-> "idle", client |-> 0, result |-> 0]

\* the module has been loaded: nothing is cached, no client has been
\* constructed by connectToDatabase (clients are numbered from 1, null is 0)
NoMongo ==
    [cachedClient |-> 0, cachedDb |-> 0, nextClient |-> 1, connected |-> {},
     calls |-> [p \in Callers |-> IdleCall]]

Init ==
    /\ units = {}
    /\ nextId = 1
    /\ last = NoLast
    /\ procs = [p \in Procs |-> IdleProc]
    /\ cablestock = {}
    /\ upload = NoUpload
    /\ consumptionData = NoConsumption
    /\ inventory = {}
    /\ inventoryLast = NoInventoryLast
    /\ availableIps = NoAvailableIps
    /\ ipInts = NoIpInts
    /\ unitList = NoUnitList
    /\ mongo = NoMongo

\* the answers to every create request the clients can send
CreateAnswers(U, id) ==
    UNION {{[o |-> o,
             hadPrimary |-> /\ o.status = 201
                            /\ req.sharedComputer # "true"
                            /\ Truthy(req.primaryUser)] :
                o \in CreateUnit(U, id, req)} : req \in CreateRequests}

\* the answers to every update request the clients can send
UpdateAnswers(U) ==
    UNION {{[o |-> o,
             hadPrimary |-> /\ o.status = 200
                            /\ \E e \in ExistingUnit(U, req) :
                                  /\ FinalSharedComputer(e, req) # "true"
                                  /\ \/ Truthy(req.primaryUser)
                                     \/ Truthy(e.primaryUser)] :
                o \in UpdateUnit(U, req)} : req \in UpdateRequests}

\* a request is taken up only when the one before it has been answered
Idle == last = NoLast

Create ==
    /\ Idle
    /\ nextId <= MaxUnits
    /\ \E a \in CreateAnswers(units, nextId) :
          /\ units' = a.o.units
          /\ nextId' = IF a.o.status = 201 THEN nextId + 1 ELSE nextId
          /\ last' = Last("create", a.o, UNDEFINED, UNDEFINED, a.hadPrimary)
    /\ UNCHANGED <<procs, outsideUnits>>

Update ==
    /\ Idle
    /\ \E a \in UpdateAnswers(units) :
          /\ units' = a.o.units
          /\ last' = Last("update", a.o, UNDEFINED, UNDEFINED, a.hadPrimary)
    /\ UNCHANGED <<nextId, procs, outsideUnits>>

Delete ==
    /\ Idle
    /\ \E name \in DeleteNames : \E o \in DeleteUnit(units, name) :
          /\ units' = o.units
          /\ last' = Last("delete", o, name, UNDEFINED, FALSE)
    /\ UNCHANGED <<nextId, procs, outsideUnits>>

CheckIp ==
    /\ Idle
    /\ \E ip \in IpInputs :
          /\ units' = CheckIpResponse(units, ip).units
          /\ last' = Last("check-ip", CheckIpResponse(units, ip), UNDEFINED, ip, FALSE)
    /\ UNCHANGED <<nextId, procs, outsideUnits>>

\* the response has gone out and the server waits for the next request
Respond ==
    /\ ~Idle
    /\ last' = NoLast
    /\ UNCHANGED <<units, nextId, procs, outsideUnits>>

Next == Create \/ Update \/ Delete \/ CheckIp \/ Respond

Spec == Init /\ [][Next]_vars

(* ---------------- two create requests running concurrently ------------- *)

\* the handler of request p stops with an error response
RaceFail(p, error) ==
    procs' = [procs EXCEPT ![p].pc = "done", ![p].status = 400,
                           ![p].error = error]

\* request p arrives: req.json() and the checks that read no document
RaceReceive(p) ==
    /\ procs[p].pc = "idle"
    /\ \E req \in CreateRequests :
          IF CreateValidate(req) # ""
          THEN procs' = [procs EXCEPT ![p].pc = "done", ![p].req = req,
                                      ![p].status = 400,
                                      ![p].error = CreateValidate(req)]
          ELSE procs' = [procs EXCEPT ![p].pc = "name", ![p].req = req,
                                      ![p].finalIp = req.ip]
    /\ UNCHANGED <<units, nextId, last, outsideUnits>>

\* await units.findOne({ name: trimmedName })
RaceNameLookup(p) ==
    /\ procs[p].pc = "name"
    /\ IF CreateNameTaken(units, procs[p].req)
       THEN RaceFail(p, "Name already exists")
       ELSE procs' = [procs EXCEPT ![p].pc =
                         IF CreateBranch(procs[p].req) = "none"
                         THEN "insert" ELSE "resolve"]
    /\ UNCHANGED <<units, nextId, last, outsideUnits>>

\* await units.findOne of the primary user, or of a holder of the ip
RaceResolveIp(p) ==
    /\ procs[p].pc = "resolve"
    /\ \E r \in CreateResolveIp(units, procs[p].req) :
          IF r.error # ""
          THEN RaceFail(p, r.error)
          ELSE procs' = [procs EXCEPT ![p].pc = "insert",
                                      ![p].finalIp = r.finalIp]
    /\ UNCHANGED <<units, nextId, last, outsideUnits>>

\* await units.insertOne(newUnit) and the 201 response
RaceInsert(p) ==
    /\ procs[p].pc = "insert"
    /\ units' = InsertOne(units, NewUnit(procs[p].req, nextId, procs[p].finalIp))
    /\ nextId' = nextId + 1
    /\ procs' = [procs EXCEPT ![p].pc = "done", ![p].status = 201,
                              ![p].id = nextId]
    /\ UNCHANGED <<last, outsideUnits>>

RaceNext ==
    \E p \in Procs :
        \/ RaceReceive(p)
        \/ RaceNameLookup(p)
        \/ RaceResolveIp(p)
        \/ RaceInsert(p)

SpecRace == Init /\ [][RaceNext]_vars

(* ----------------------- cable-stock uploads --------------------------- *)

\* POST /api/cablestock/upload with one of the files; replaced tells that
\* a snapshot of the month was stored before with other items
Upload ==
    /\ upload = NoUpload
    /\ \E file \in UploadFiles : \E o \in UploadFile(cablestock, file) :
          /\ cablestock' = o.cablestock
          /\ upload' = [name |-> file.name, file |-> file, status |-> o.status,
                        error |-> o.error, read |-> o.read,
                        month |-> o.month, items |-> o.items,
                        replaced |-> /\ o.status = 200
                                     /\ \E d \in FindByMonth(cablestock, o.month) :
                                           d.items # o.items]
    /\ UNCHANGED outsideStock

\* the response has gone out and the server waits for the next upload
UploadRespond ==
    /\ upload # NoUpload
    /\ upload' = NoUpload
    /\ UNCHANGED <<cablestock, outsideStock>>

NextStock == Upload \/ UploadRespond

SpecStock == Init /\ [][NextStock]_vars

(* ------------------- comparisons of two snapshots ---------------------- *)

\* what a comparison by the page or by the endpoint answered
Consumption(by, fromData, toData, o) ==
    [by |-> by, fromData |-> fromData, toData |-> toData,
     status |-> o.status, error |-> o.error, items |-> o.items]

\* the stock page compares two months of the data it holds
FetchConsumption ==
    /\ consumptionData = NoConsumption
    /\ \E fromData, toData \in Snapshots :
          consumptionData' = Consumption("page", fromData, toData,
                                FetchConsumptionData(fromData, toData))
    /\ UNCHANGED outsideConsumption

\* GET /api/cablestock/compare?from=&to=
Compare ==
    /\ consumptionData = NoConsumption
    /\ \E fromData, toData \in Snapshots :
          consumptionData' = Consumption("compare", fromData, toData,
                                CompareSnapshots(fromData, toData))
    /\ UNCHANGED outsideConsumption

\* the comparison is closed
CloseConsumption ==
    /\ consumptionData # NoConsumption
    /\ consumptionData' = NoConsumption
    /\ UNCHANGED outsideConsumption

NextConsumption == FetchConsumption \/ Compare \/ CloseConsumption

SpecConsumption == Init /\ [][NextConsumption]_vars

(* ---------------------- requests on the inventory ---------------------- *)

\* what the last request on the inventory was and how it was answered
InventoryLast(op, item, location, o) ==
    [op |-> op, item |-> item, location |-> location, status |-> o.status,
     error |-> o.error, id |-> o.id]

InventoryCreate ==
    /\ inventoryLast = NoInventoryLast
    /\ Cardinality(inventory) < MaxInventory
    /\ \E req \in InventoryCreateRequests :
          \E o \in CreateInventoryItem(inventory, req) :
              /\ inventory' = o.inventory
              /\ inventoryLast' = InventoryLast("create", req.item,
                                                req.location, o)
    /\ UNCHANGED outsideInventory

InventoryUpdate ==
    /\ inventoryLast = NoInventoryLast
    /\ \E item \in InventoryItemParams : \E req \in InventoryUpdateRequests :
          \E o \in UpdateInventoryItem(inventory, item, req) :
              /\ inventory' = o.inventory
              /\ inventoryLast' = InventoryLast("update", item,
                                                req.location, o)
    /\ UNCHANGED outsideInventory

InventoryDelete ==
    /\ inventoryLast = NoInventoryLast
    /\ \E item \in InventoryItemParams :
          \E o \in DeleteInventoryItem(inventory, item) :
              /\ inventory' = o.inventory
              /\ inventoryLast' = InventoryLast("delete", item, "", o)
    /\ UNCHANGED outsideInventory

\* the response has gone out and the server waits for the next request
InventoryRespond ==
    /\ inventoryLast # NoInventoryLast
    /\ inventoryLast' = NoInventoryLast
    /\ UNCHANGED <<inventory, outsideInventory>>

NextInventory ==
    InventoryCreate \/ InventoryUpdate \/ InventoryDelete \/ InventoryRespond

SpecInventory == Init /\ [][NextInventory]_vars

(* -------------------- pages of available addresses --------------------- *)

\* the list page is opened: the addresses of the units are fetched and the
\* available addresses of every gateway are computed
OpenIPListPage ==
    /\ availableIps = NoAvailableIps
    /\ \E gateways \in GatewayLists : \E ips \in UsedIpSets :
          availableIps' =
              [by |-> "IPListPage", gateways |-> gateways, usedIps |-> ips,
               result |-> GatewayAvailableIps(gateways, FilterBoolean(ips))]
    /\ UNCHANGED outsideAvailableIps

\* the subnet page is opened
OpenSubnetPage ==
    /\ availableIps = NoAvailableIps
    /\ \E gateways \in GatewayLists : \E ips \in UsedIpSets :
          availableIps' =
              [by |-> "SubnetPage", gateways |-> gateways, usedIps |-> ips,
               result |-> CheckIps(gateways, ips)]
    /\ UNCHANGED outsideAvailableIps

\* the page is left
CloseAvailableIps ==
    /\ availableIps # NoAvailableIps
    /\ availableIps' = NoAvailableIps
    /\ UNCHANGED outsideAvailableIps

NextAvailableIps == OpenIPListPage \/ OpenSubnetPage \/ CloseAvailableIps

SpecAvailableIps == Init /\ [][NextAvailableIps]_vars

(* ---------------------- conversions of addresses ------------------------ *)

\* two addresses are converted, as the comparison of a sort does
Convert ==
    /\ ipInts = NoIpInts
    /\ \E x \in IpToIntInputs : \E y \in IpToIntInputs :
          ipInts' = [done |-> TRUE, x |-> x, y |-> y,
                     ix |-> IpToInt(x), iy |-> IpToInt(y)]
    /\ UNCHANGED outsideIpInts

\* the results are dropped
ForgetIpInts ==
    /\ ipInts # NoIpInts
    /\ ipInts' = NoIpInts
    /\ UNCHANGED outsideIpInts

NextIpInts == Convert \/ ForgetIpInts

SpecIpInts == Init /\ [][NextIpInts]_vars

(* ------------------------- listings of the units ----------------------- *)

\* POST /api/units before a listing
ListCreate ==
    /\ unitList = NoUnitList
    /\ Cardinality(units) < MaxListed
    /\ \E req \in ListCreateRequests : \E o \in CreateUnit(units, nextId, req) :
          /\ units' = o.units
          /\ nextId' = IF o.status = 201 THEN nextId + 1 ELSE nextId
    /\ UNCHANGED <<last, procs, outsideUnits>>

\* GET /api/units
ListGet ==
    /\ unitList = NoUnitList
    /\ \E data \in GetUnits(units) :
          unitList' = [by |-> "GET", search |-> <<>>, data |-> data]
    /\ UNCHANGED outsideUnitList

\* the units page fetches the units and shows those that match the search
ListPage ==
    /\ unitList = NoUnitList
    /\ \E data \in GetUnits(units) : \E search \in SearchInputs :
          unitList' = [by |-> "page", search |-> search,
                       data |-> FilteredUnits(data, search)]
    /\ UNCHANGED outsideUnitList

\* the listing is left
ListClose ==
    /\ unitList # NoUnitList
    /\ unitList' = NoUnitList
    /\ UNCHANGED outsideUnitList

NextList == ListCreate \/ ListGet \/ ListPage \/ ListClose

SpecList == Init /\ [][NextList]_vars

(* ------------------------- connectToDatabase --------------------------- *)
(* A call runs up to its next await in one step; the steps of calls that  *)
(* overlap interleave at the awaits.                                       *)

\* the call of p is now c
SetCall(p, c) == [mongo.calls EXCEPT ![p] = c]

\* connectToDatabase() is called: the cache is returned when both parts
\* are set, otherwise a client is constructed and connect() is awaited
ConnectCall(p) ==
    /\ mongo.calls[p].pc = "idle"
    /\ IF mongo.cachedClient # 0 /\ mongo.cachedDb # 0
       THEN mongo' = [mongo EXCEPT
                        !.calls = SetCall(p, [pc |-> "returned", client |-> 0,
                                              result |-> mongo.cachedClient])]
       ELSE /\ mongo.nextClient <= MaxClients
            /\ mongo' = [mongo EXCEPT
                           !.nextClient = @ + 1,
                           !.calls = SetCall(p, [pc |-> "connect",
                                                 client |-> mongo.nextClient,
                                                 result |-> 0])]
    /\ UNCHANGED outsideMongo

\* await client.connect() settles: the connection is established and the
\* ping is awaited, or the call throws
ConnectSettle(p) ==
    /\ mongo.calls[p].pc = "connect"
    /\ \/ mongo' = [mongo EXCEPT
                      !.connected = @ \cup {mongo.calls[p].client},
                      !.calls = SetCall(p, [mongo.calls[p] EXCEPT
                                               !.pc = "ping"])]
       \/ mongo' = [mongo EXCEPT
                      !.calls = SetCall(p, [mongo.calls[p] EXCEPT
                                               !.pc = "thrown"])]
    /\ UNCHANGED outsideMongo

\* await db.command({ ping: 1 }) settles: the client and its db are cached
\* and the collections are listed, or the call throws
PingSettle(p) ==
    /\ mongo.calls[p].pc = "ping"
    /\ \/ mongo' = [mongo EXCEPT
                      !.cachedClient = mongo.calls[p].client,
                      !.cachedDb = mongo.calls[p].client,
                      !.calls = SetCall(p, [mongo.calls[p] EXCEPT
                                               !.pc = "list"])]
       \/ mongo' = [mongo EXCEPT
                      !.calls = SetCall(p, [mongo.calls[p] EXCEPT
                                               !.pc = "thrown"])]
    /\ UNCHANGED outsideMongo

\* await db.listCollections().toArray() settles: the call returns its own
\* client and db, or throws
ListSettle(p) ==
    /\ mongo.calls[p].pc = "list"
    /\ \/ mongo' = [mongo EXCEPT
                      !.calls = SetCall(p, [mongo.calls[p] EXCEPT
                                               !.pc = "returned",
                                               !.result = mongo.calls[p].client])]
       \/ mongo' = [mongo EXCEPT
                      !.calls = SetCall(p, [mongo.calls[p] EXCEPT
                                               !.pc = "thrown"])]
    /\ UNCHANGED outsideMongo

\* the caller has used what it got and may call again
CallEnd(p) ==
    /\ mongo.calls[p].pc \in {"returned", "thrown"}
    /\ mongo' = [mongo EXCEPT !.calls = SetCall(p, IdleCall)]
    /\ UNCHANGED outsideMongo

NextMongo ==
    \E p \in Callers :
        \/ ConnectCall(p)
        \/ ConnectSettle(p)
        \/ PingSettle(p)
        \/ ListSettle(p)
        \/ CallEnd(p)

SpecMongo == Init /\ [][NextMongo]_vars

(* ------------------------------ properties ----------------------------- *)

Shared(u) == u.sharedComputer = "true"

\* the last request was a create or update that wrote a document
Wrote == last.op \in {"create", "update"} /\ last.status \in {200, 201}

\* C1: no two distinct stored units whose sharedComputer is not true hold
\* the same non-empty ip.
C1_UniqueIpAmongNonShared ==
    \A u, v \in units :
        (u # v /\ ~Shared(u) /\ ~Shared(v) /\ Truthy(u.ip)) => u.ip # v.ip

\* an update was turned away with 'IP already exists' while two non-shared
\* units hold different ips
C1_Witness ==
    /\ last.op = "update"
    /\ last.error = "IP already exists"
    /\ \E u, v \in units :
          /\ ~Shared(u) /\ ~Shared(v)
          /\ Truthy(u.ip) /\ Truthy(v.ip) /\ u.ip # v.ip

\* C2: no two distinct stored units have the same name.
C2_UniqueNames == \A u, v \in units : u # v => u.name # v.name

\* a unit that owns an ip: non-shared, with a non-empty ip
OwnsIp(p) == ~Shared(p) /\ Truthy(p.ip)

\* C3: right after a create or update that persisted a shared unit whose
\* primaryUser names an existing unit, its ip equals that unit's ip.  Stated
\* for primary users that own an ip, so that a violation is a shared unit
\* written with an ip other than the one its primary user holds.
C3_SharedIpEqualsPrimaryAfterWrite ==
    Wrote =>
        \A u \in units :
            (u._id = last.id /\ Shared(u)) =>
                \A p \in FindByName(units, u.primaryUser) :
                    OwnsIp(p) => u.ip = p.ip

\* u borrows the ip of a stored unit that its primaryUser names
InSync(U, u) ==
    /\ Shared(u)
    /\ FindByName(U, u.primaryUser) # {}
    /\ \A p \in FindByName(U, u.primaryUser) : u.ip = p.ip

\* C4: every stored shared unit whose primaryUser names an existing unit
\* has that unit's current ip, also after the primary unit's own ip is
\* changed by a later update.  Stated as a step property: a shared unit that
\* holds its primary user's ip, and that the request does not write, holds
\* the ip of whatever unit its primaryUser names after the request.
C4_SharedIpEqualsPrimary ==
    [][\A u \in units \cap units' :
          InSync(units, u) =>
              \A p \in FindByName(units', u.primaryUser) : u.ip = p.ip]_vars

\* C5: every stored shared unit has a primaryUser that names a stored unit;
\* deleting or renaming a unit never leaves a shared unit whose primaryUser
\* no longer resolves.  Stated as a step property: a shared unit whose
\* primaryUser names a stored unit, and that the request does not write,
\* has a primaryUser that names a stored unit after the request.
C5_PrimaryResolves ==
    [][\A u \in units \cap units' :
          (Shared(u) /\ FindByName(units, u.primaryUser) # {}) =>
              FindByName(units', u.primaryUser) # {}]_vars

\* C6: no unit is persisted with sharedComputer = true and an absent
\* primaryUser (such a create or update is rejected and writes nothing).
C6_SharedHasPrimary ==
    \A u \in units : Shared(u) => Truthy(u.primaryUser)

\* C7: every stored unit whose sharedComputer is not true has
\* primaryUser = null.
C7_NonSharedPrimaryNull ==
    \A u \in units : ~Shared(u) => u.primaryUser = NULL

\* a create or update with a primaryUser at hand (supplied, or stored before)
\* wrote a non-shared unit, whose primaryUser is null
C7_Witness ==
    /\ Wrote
    /\ last.hadPrimary
    /\ \E u \in units :
          u._id = last.id /\ ~Shared(u) /\ u.primaryUser = NULL

\* C8: every stored unit is non-shared and owns a non-empty ip, or is shared
\* and references a primary user.
C8_OwnsIpOrShared ==
    \A u \in units :
        \/ ~Shared(u) /\ Truthy(u.ip)
        \/ Shared(u) /\ Truthy(u.primaryUser)

\* C9: a create request that has passed its lookups is never turned away:
\* whatever the other request does meanwhile, its insert goes through, it
\* answers 201 and its document is in the collection.
C9_NoAtomicGuard ==
    [][\A p \in Procs :
          procs[p].pc = "insert" =>
              \/ procs'[p] = procs[p]
              \/ /\ procs'[p].pc = "done"
                 /\ procs'[p].status = 201
                 /\ \E u \in units' \ units :
                       /\ u._id = procs'[p].id
                       /\ u.name = TrimEnd(procs[p].req.name)]_vars

\* both requests answered 201 and the collection holds two non-shared units
\* of one name and one ip
C9_Witness ==
    /\ \A p \in Procs : procs[p].pc = "done" /\ procs[p].status = 201
    /\ \E u, v \in units :
          /\ u._id # v._id
          /\ u.name = v.name
          /\ ~Shared(u) /\ ~Shared(v)
          /\ Truthy(u.ip) /\ u.ip = v.ip

\* C10: no stored unit has a non-empty ip that is not a strict IPv4 dotted
\* quad.
C10_StoredIpWellFormed ==
    \A u \in units : Truthy(u.ip) => IPv4RegexTest(u.ip)

\* C11: every stored unit's name is non-empty, has no trailing whitespace and
\* contains none of the forbidden characters (a create or update whose name
\* is empty after trimming or holds a forbidden character writes nothing).
C11_StoredNameValid ==
    \A u \in units :
        /\ Truthy(u.name)
        /\ u.name[Len(u.name)] \notin Whitespace
        /\ \A i \in 1..Len(u.name) : u.name[i] \notin ProblematicChars

\* a dotted quad: four groups of one to three digits, each at most 255
DottedQuad(s) ==
    /\ Len(SplitDots(s)) = 4
    /\ \A i \in 1..4 :
          LET g == SplitDots(s)[i]
          IN  /\ Len(g) \in 1..3
              /\ \A k \in 1..Len(g) : g[k] \in Digits
              /\ DigitsValue(g) <= 255

\* the outcome the check-ip contract names for ip on collection U
CheckIpOutcome(U, ip) ==
    IF ip = UNDEFINED \/ ~DottedQuad(ip) THEN "Invalid IP address format"
    ELSE IF \E u \in U : ~Shared(u) /\ u.ip = ip
    THEN "IP Address Already Exists."
    ELSE "Available."

\* C12: a check-ip request leaves the units collection as it was, and its
\* outcome is the one fixed by the ip and the collection alone (so repeated
\* calls with no write in between answer alike): invalid format for a
\* missing or malformed ip, already exists when a unit whose sharedComputer
\* is not true holds the ip, available otherwise.
C12_CheckIpReadOnly ==
    [][last'.op = "check-ip" =>
          /\ units' = units
          /\ last'.error = CheckIpOutcome(units, last'.ip)
          /\ last'.status = IF last'.error = "Available." THEN 201 ELSE 400]_vars

\* check-ip answered available for an ip that only a shared unit holds
C12_Witness ==
    /\ last.op = "check-ip"
    /\ last.error = "Available."
    /\ \E u \in units : Shared(u) /\ u.ip = last.ip

\* C13: a delete by name that finds a unit of that name removes that one
\* unit and leaves every other unit as it was; when no unit has the name it
\* answers 404 'Unit not found' and leaves the collection as it was.
C13_DeleteExactlyOne ==
    [][last'.op = "delete" =>
          IF \E u \in units : u.name = last'.name
          THEN /\ last'.status = 200
               /\ \E d \in units :
                     /\ d.name = last'.name
                     /\ units' = units \ {d}
                     /\ Cardinality(units') = Cardinality(units) - 1
          ELSE /\ last'.status = 404
               /\ last'.error = "Unit not found"
               /\ units' = units]_vars

\* a delete of one of two stored units went through and the other is still
\* stored
C13_Witness ==
    /\ last.op = "delete"
    /\ last.status = 200
    /\ \E u \in units : u.name # last.name

\* C14: whatever uploads came before, successful or failed, an upload leaves
\* at most one snapshot per month key; a successful one leaves the snapshot
\* of its month with exactly the items parsed from its file (nothing of the
\* items stored before is kept) and every other snapshot as it was, so that
\* uploading a file whose items are already stored changes nothing; a
\* failed one leaves the collection as it was.
C14_UploadReplaces ==
    [][upload'.status # 0 =>
          /\ \A c, d \in cablestock' : c.month = d.month => c = d
          /\ IF upload'.status = 200
             THEN /\ \E d \in cablestock' :
                       d.month = upload'.month /\ d.items = upload'.items
                  /\ {d \in cablestock' : d.month # upload'.month}
                        = {d \in cablestock : d.month # upload'.month}
                  /\ (\E d \in cablestock :
                          d.month = upload'.month /\ d.items = upload'.items)
                        => cablestock' = cablestock
             ELSE cablestock' = cablestock]_vars

\* an upload replaced the stored items of its month by other items while a
\* snapshot of another month is stored
C14_Witness ==
    /\ upload.status = 200
    /\ upload.replaced
    /\ \E d \in cablestock : d.month = upload.month /\ d.items = upload.items
    /\ \E d \in cablestock : d.month # upload.month

\* name reads CABLE STOCK(MM.DD.YYYY).xlsx, whatever the case of its letters,
\* with nothing before or after
ExactFileName(name) ==
    /\ Len(name) = 28
    /\ EqualsIgnoreCase(SubSeq(name, 1, 11), CableStockLiteral)
    /\ name[12] = "("
    /\ DateAt(name, 13)
    /\ name[23] = ")"
    /\ EqualsIgnoreCase(SubSeq(name, 24, 28), XlsxLiteral)

PatternMonths(name) ==
    {SubSeq(name, i + 11 + open, i + 12 + open) \o <<"/">>
         \o SubSeq(name, i + 17 + open, i + 20 + open) :
       <<i, open>> \in
         {<<j, o>> \in (1..Len(name)) \X {0, 1} :
            \E close \in {0, 1} :
               /\ j + 25 + o + close <= Len(name)
               /\ EqualsIgnoreCase(SubSeq(name, j, j + 10), CableStockLiteral)
               /\ o = 1 => name[j + 11] = "("
               /\ DateAt(name, j + 11 + o)
               /\ close = 1 => name[j + 21 + o] = ")"
               /\ EqualsIgnoreCase(SubSeq(name, j + 21 + o + close,
                                          j + 25 + o + close), XlsxLiteral)}}

OfType(items, type) == {i \in 1..Len(items) : items[i].type = type}

\* C15: for every item of the from snapshot the page's comparison gives a
\* record with, for d = toQuantity - fromQuantity (toQuantity the quantity
\* of that type in the to snapshot, 0 when the type is absent there):
\* usedQuantity = d and instockQuantity = 0 when d >= 0, instockQuantity = -d
\* and usedQuantity = 0 otherwise; so at most one of the two is not zero and
\* usedQuantity - instockQuantity = toQuantity - fromQuantity.
C15_UsedOrInstock ==
    (consumptionData.by = "page" /\ consumptionData.error = "") =>
        \A i \in 1..Len(consumptionData.fromData.items) :
            LET fromItem == consumptionData.fromData.items[i]
                toItems == consumptionData.toData.items
                r == consumptionData.items[i]
                d == r.toQuantity - r.fromQuantity
            IN  /\ r.type = fromItem.type
                /\ r.fromQuantity = fromItem.quantity
                /\ OfType(toItems, r.type) = {} => r.toQuantity = 0
                /\ OfType(toItems, r.type) # {} =>
                      \E k \in OfType(toItems, r.type) :
                          /\ r.toQuantity = toItems[k].quantity
                          /\ \A j \in OfType(toItems, r.type) : k <= j
                /\ d >= 0 => (r.usedQuantity = d /\ r.instockQuantity = 0)
                /\ d < 0 => (r.instockQuantity = 0 - d /\ r.usedQuantity = 0)
                /\ r.usedQuantity = 0 \/ r.instockQuantity = 0
                /\ r.usedQuantity - r.instockQuantity
                      = r.toQuantity - r.fromQuantity

\* the page compared a snapshot with a type that grew, a type that shrank or
\* stayed, and the record of a type the to snapshot lacks
C15_Witness ==
    /\ consumptionData.by = "page"
    /\ consumptionData.error = ""
    /\ \E i \in 1..Len(consumptionData.fromData.items) :
          /\ consumptionData.items[i].usedQuantity > 0
          /\ consumptionData.items[i].toQuantity > 0
    /\ \E i \in 1..Len(consumptionData.fromData.items) :
          /\ consumptionData.items[i].instockQuantity > 0
          /\ consumptionData.items[i].toQuantity = 0

\* the scenario: from holds A-X, L1, 10 and to holds A-X, L2, 6
Scenario ==
    /\ consumptionData.by = "page"
    /\ consumptionData.fromData
          = [found |-> TRUE,
             items |-> <<[type |-> TypeAX, linno |-> LinnoL1, quantity |-> 10]>>]
    /\ consumptionData.toData
          = [found |-> TRUE,
             items |-> <<[type |-> TypeAX, linno |-> LinnoL2, quantity |-> 6]>>]

\* C16 as claimed: in the scenario the record of A-X has usedQuantity = 4,
\* instockQuantity = 0 and usedLinno = L2.
C16_ScenarioUsedFour ==
    Scenario =>
        /\ consumptionData.items[1].usedQuantity = 4
        /\ consumptionData.items[1].instockQuantity = 0
        /\ consumptionData.items[1].usedLinno = LinnoL2

\* C16 as amended: in the scenario the record of A-X has usedQuantity = 0,
\* instockQuantity = 4 and usedLinno = L2.
C16_ScenarioInstockFour ==
    Scenario =>
        /\ Len(consumptionData.items) = 1
        /\ consumptionData.items[1].type = TypeAX
        /\ consumptionData.items[1].usedQuantity = 0
        /\ consumptionData.items[1].instockQuantity = 4
        /\ consumptionData.items[1].usedLinno = LinnoL2

\* the scenario has been compared
C16_Witness == Scenario /\ consumptionData.error = ""

\* C17: a comparison of two snapshots, by the page or by the endpoint, gives
\* for every item of the to snapshot whose type the from snapshot lacks a
\* record of that type with fromQuantity = 0, usedQuantity = toQuantity (the
\* item's quantity) and instockQuantity = 0.
C17_OnlyInToIsUsed ==
    (consumptionData.by # "none" /\ consumptionData.error = "") =>
        \A k \in 1..Len(consumptionData.toData.items) :
            LET toItem == consumptionData.toData.items[k]
            IN  OfType(consumptionData.fromData.items, toItem.type) = {} =>
                    \E i \in 1..Len(consumptionData.items) :
                        LET r == consumptionData.items[i]
                        IN  /\ r.type = toItem.type
                            /\ r.fromQuantity = 0
                            /\ r.toQuantity = toItem.quantity
                            /\ "usedQuantity" \in DOMAIN r
                            /\ r.usedQuantity = toItem.quantity
                            /\ r.instockQuantity = 0

\* C19: after inventory requests served one at a time no two stored items
\* have the same item and location, also after an update that moves an item
\* to a location where an item of the same name is stored; and an update of
\* an item that is stored at the location the request names leaves the items
\* of that name stored at other locations as they were (a delete request
\* names no location).
C19_UniqueItemLocation ==
    [][inventoryLast'.op # "none" =>
          /\ \A a, b \in inventory' :
                (a.item = b.item /\ a.location = b.location) => a = b
          /\ (/\ inventoryLast'.op = "update"
              /\ FindByItemLocation(inventory,
                                    DecodeURIComponent(inventoryLast'.item),
                                    inventoryLast'.location) # {}) =>
                \A d \in FindByItem(inventory,
                                    DecodeURIComponent(inventoryLast'.item)) :
                    d.location # inventoryLast'.location => d \in inventory']_vars

\* the last octets that the claim puts on the list of gateway G: the i
\* from 1 to min(R, 254) whose address base.i is not assigned
ExpectedOctets(G, S) ==
    {i \in 1..(IF G.range < 254 THEN G.range ELSE 254) :
        BaseIp(G.ip) \o <<".">> \o NatToString(i) \notin S}

\* list holds exactly the octets of E, three digits each, in ascending order
ListsExactly(list, E) ==
    /\ \A j \in 1..Len(list) :
          /\ Len(list[j]) = 3
          /\ \A c \in 1..3 : list[j][c] \in Digits
    /\ \A j \in 1..(Len(list) - 1) :
          DigitsValue(list[j]) < DigitsValue(list[j + 1])
    /\ {DigitsValue(list[j]) : j \in 1..Len(list)} = E

\* C20: for every configured gateway G with range R and every set S of
\* assigned addresses, the list a page shows for G holds exactly the
\* zero-padded last octets i, 1 <= i <= min(R, 254), with base.i not in S,
\* in ascending order, and is the list G gets when it is the only gateway
C20_AvailableExact ==
    availableIps.by # "none" =>
        \A g \in 1..Len(availableIps.gateways) :
            LET G == availableIps.gateways[g]
                S == availableIps.usedIps
            IN  /\ MapHas(availableIps.result, G.ip)
                /\ ListsExactly(MapGet(availableIps.result, G.ip),
                                ExpectedOctets(G, S))
                /\ MapGet(availableIps.result, G.ip) =
                      MapGet(IF availableIps.by = "IPListPage"
                             THEN GatewayAvailableIps(<<G>>, FilterBoolean(S))
                             ELSE CheckIps(<<G>>, S), G.ip)

\* the four octets of a dotted quad, as numbers
OctetsOf(x) == [i \in 1..4 |-> DigitsValue(SplitDots(x)[i])]

\* x precedes y in octet-wise numeric order, most significant octet first
PrecedesByOctets(x, y) ==
    \E i \in 1..4 :
        /\ OctetsOf(x)[i] < OctetsOf(y)[i]
        /\ \A j \in 1..(i - 1) : OctetsOf(x)[j] = OctetsOf(y)[j]

\* C22: for valid dotted quads a.b.c.d, ipToInt returns
\* a*2^24 + b*2^16 + c*2^8 + d, a number from 0 to 2^32 - 1 also when a is
\* 128 or more; ipToInt(x) < ipToInt(y) exactly when x precedes y in
\* octet-wise numeric order; and ipToInt("192.168.1.1") = 3232235777,
\* which is 49320 * 65536 + 257
C22_IpToInt ==
    (ipInts.done /\ IPv4RegexTest(ipInts.x) /\ IPv4RegexTest(ipInts.y)) =>
        LET o == OctetsOf(ipInts.x)
        IN  /\ ipInts.ix = [hi |-> o[1] * 256 + o[2], lo |-> o[3] * 256 + o[4]]
            /\ ipInts.ix.hi \in 0..65535
            /\ ipInts.ix.lo \in 0..65535
            /\ NumLess(ipInts.ix, ipInts.iy)
                  <=> PrecedesByOctets(ipInts.x, ipInts.y)
            /\ ipInts.x = IpExample => ipInts.ix = [hi |-> 49320, lo |-> 257]

\* the example address and an address with all bits set have been converted
C22_Witness ==
    /\ ipInts.done
    /\ ipInts.x = IpExample
    /\ ipInts.ix = [hi |-> 49320, lo |-> 257]
    /\ ipInts.iy = [hi |-> 65535, lo |-> 65535]

\* the row holds its units in ascending numeric order of their addresses,
\* those without an address behind all that have one
InIpOrder(data) ==
    \A i, j \in 1..Len(data) :
        i < j =>
            /\ Falsy(data[i].ip) => Falsy(data[j].ip)
            /\ (Truthy(data[i].ip) /\ Truthy(data[j].ip)) =>
                  ~PrecedesByOctets(data[j].ip, data[i].ip)

\* C21: a listing holds all stored units (those matching the search, on
\* the page), in ascending numeric order of their addresses, octets compared
\* as numbers, and the units without an address come last
C21_ListedInIpOrder ==
    unitList.by # "none" =>
        /\ {unitList.data[i] : i \in 1..Len(unitList.data)} =
              {u \in units : MatchesSearch(u, unitList.search)}
        /\ Len(unitList.data) =
              Cardinality({u \in units : MatchesSearch(u, unitList.search)})
        /\ InIpOrder(unitList.data)

\* C23: across the calls of connectToDatabase, overlapping ones included,
\* at most one connection is ever established, and every call that has
\* returned holds the cached client
C23_SingleConnection ==
    /\ Cardinality(mongo.connected) <= 1
    /\ \A p \in Callers :
          mongo.calls[p].pc = "returned" =>
              mongo.calls[p].result = mongo.cachedClient

\* the update requests that turn the stored shared unit e into a non-shared
\* one and supply no ip
SharedToNonSharedWithoutIp(e) ==
    {req \in UpdateRequests :
        /\ req._id = e._id
        /\ req.sharedComputer = "false"
        /\ Falsy(req.ip)}

\* C24: an update that turns a stored shared unit into a non-shared one and
\* supplies no ip writes nothing and is rejected, with the 'IP is required
\* when changing from shared to non-shared computer' error unless the name
\* checks that run first reject it
C24_SharedToNonSharedNeedsIp ==
    \A e \in units :
        e.sharedComputer = "true" =>
            \A req \in SharedToNonSharedWithoutIp(e) :
                \A o \in UpdateUnit(units, req) :
                    /\ o.units = units
                    /\ o.error \in
                          {"IP is required when changing from shared to non-shared computer",
                           "Name contains characters that are not allowed",
                           "Name already exists"}

RECURSIVE LexLess(_, _)
\* a is lexicographically less than b
LexLess(a, b) ==
    IF b = <<>> THEN FALSE
    ELSE IF a = <<>> THEN TRUE
    ELSE IF a[1] # b[1] THEN Rank(a[1]) < Rank(b[1])
    ELSE LexLess(Tail(a), Tail(b))

\* the identifier of the first item of that type, empty when there is none
IdentifierOf(items, type) ==
    IF OfType(items, type) = {} THEN <<>>
    ELSE items[CHOOSE k \in OfType(items, type) :
                   \A j \in OfType(items, type) : k <= j].linno

\* C25 as claimed: when the identifiers of a type differ between the from
\* and the to snapshot, the greater of the two is the record's usedLinno and
\* the lesser its instockLinno; when they are equal both are empty.
C25_GreaterUsedLesserInstock ==
    (consumptionData.by = "page" /\ consumptionData.error = "") =>
        \A i \in 1..Len(consumptionData.fromData.items) :
            LET f == consumptionData.fromData.items[i].linno
                t == IdentifierOf(consumptionData.toData.items,
                                  consumptionData.fromData.items[i].type)
                r == consumptionData.items[i]
            IN  /\ f = t => (r.usedLinno = <<>> /\ r.instockLinno = <<>>)
                /\ f # t =>
                      /\ r.usedLinno = IF LexLess(f, t) THEN t ELSE f
                      /\ r.instockLinno = IF LexLess(f, t) THEN f ELSE t

\* C25 as amended: when the identifiers of a type differ between the from
\* and the to snapshot, the identifier of the to snapshot is the record's
\* usedLinno if it is the greater of the two and its instockLinno if it is
\* the lesser, and the other of the two fields is empty; when the
\* identifiers are equal both are empty.
C25_ToIdentifierUsedOrInstock ==
    (consumptionData.by = "page" /\ consumptionData.error = "") =>
        \A i \in 1..Len(consumptionData.fromData.items) :
            LET f == consumptionData.fromData.items[i].linno
                t == IdentifierOf(consumptionData.toData.items,
                                  consumptionData.fromData.items[i].type)
                r == consumptionData.items[i]
            IN  /\ f = t => (r.usedLinno = <<>> /\ r.instockLinno = <<>>)
                /\ (f # t /\ LexLess(f, t)) =>
                      (r.usedLinno = t /\ r.instockLinno = <<>>)
                /\ (f # t /\ LexLess(t, f)) =>
                      (r.instockLinno = t /\ r.usedLinno = <<>>)

\* the page compared snapshots in which the identifier of one type rose and
\* that of another type fell
C25_Witness ==
    /\ consumptionData.by = "page"
    /\ consumptionData.error = ""
    /\ \E i \in 1..Len(consumptionData.fromData.items) :
          /\ consumptionData.fromData.items[i].linno = LinnoL1
          /\ consumptionData.items[i].usedLinno = LinnoL2
    /\ \E i \in 1..Len(consumptionData.fromData.items) :
          /\ consumptionData.fromData.items[i].linno = LinnoL2
          /\ consumptionData.items[i].instockLinno = LinnoL1

\* the types of the items
TypesOf(items) == {items[i].type : i \in 1..Len(items)}

\* no two items have the same type
UniqueTypes(items) ==
    \A i, j \in 1..Len(items) : items[i].type = items[j].type => i = j

\* the places of the to snapshot whose type the from snapshot lacks
NewPlaces(fromItems, toItems) ==
    {j \in 1..Len(toItems) : toItems[j].type \notin TypesOf(fromItems)}

CategoryRows(ws, row) ==
    {r \in (HeaderRow(ws) + 1)..row :
        /\ CellTruthy(GetCell(ws, r, 0))
        /\ \A merge \in ws.merges :
              (merge.s <= r /\ r <= merge.e) =>
                  \E first \in ws.merges : first.s = r}

\* the category of a row: the trimmed value of the nearest such row, empty
\* when there is none
CategoryOf(ws, row) ==
    IF CategoryRows(ws, row) = {} THEN <<>>
    ELSE Trim(CellString(GetCell(ws,
                  CHOOSE r \in CategoryRows(ws, row) :
                      \A q \in CategoryRows(ws, row) : q <= r, 0)))

\* the rows after the header with a type cell and a category
EmittingRows(ws) ==
    {row \in (HeaderRow(ws) + 1)..LastRow(ws) :
        CellTruthy(GetCell(ws, row, 1)) /\ CategoryOf(ws, row) # <<>>}

\* the sheet that an upload whose header passed was parsed from
ParsedUpload ==
    /\ upload.status = 200 \/ upload.error = "No valid items found in file"
    /\ upload.file.readable
    /\ Len(upload.file.sheets) > 0

\* C26: the rows after the header that have a type cell and a current
\* category give one record each, in row order, and no other row gives one;
\* a record's type is category-subtype with the category of the nearest row
\* at or above whose column-A cell has a value and is unmerged or the first of
\* a merged block; a missing or unparseable quantity is 0
C26_RowsToRecords ==
    ParsedUpload =>
        LET ws == upload.file.sheets[1]
            E == EmittingRows(ws)
            items == IF upload.status = 200 THEN upload.items ELSE <<>>
        IN  /\ Len(items) = Cardinality(E)
            /\ \A row \in E :
                  LET item == items[Cardinality({r \in E : r <= row})]
                      quantityCell == GetCell(ws, row, 3)
                  IN  /\ item.type = CategoryOf(ws, row) \o <<"-">>
                                       \o Trim(CellString(GetCell(ws, row, 1)))
                      /\ quantityCell.t = "undefined" => item.quantity = 0
                      /\ (/\ quantityCell.t = "string"
                          /\ ParseInt(quantityCell.s).nan) => item.quantity = 0
                      /\ quantityCell.t = "number" =>
                            item.quantity = quantityCell.n

\* a sheet was parsed in which a continuation row of a merged block holds a
\* value, a row has no type, and a quantity is no number
C26_Witness ==
    /\ upload.status = 200
    /\ upload.file.sheets[1] = SheetB
    /\ Len(upload.items) = 2
    /\ upload.items[2].type = <<"A", "-", "Z">>
    /\ upload.items[2].quantity = 0

\* the answer that the order of the checks gives the file: no file, bad
\* file name, no sheet, no header row in the first 6 rows, header validation
\* failure, zero items; empty when every check passes or the workbook cannot
\* be read
FirstFailure(file) ==
    IF file = NoFile THEN "No file provided"
    ELSE IF PatternMonths(file.name) = {} THEN "Invalid filename format"
    ELSE IF ~file.readable THEN ""
    ELSE IF Len(file.sheets) = 0 THEN "Excel file has no sheets"
    ELSE IF HeaderRow(file.sheets[1]) = -1 THEN "Could not find header row"
    ELSE IF ~HeadersValid(file.sheets[1]) THEN "Header validation failed"
    ELSE IF EmittingRows(file.sheets[1]) = {}
    THEN "No valid items found in file"
    ELSE ""

\* C29: an upload that fails leaves every stored snapshot unchanged, that of
\* its own month included; the checks run in the order no file, bad file
\* name, no sheet, header row not found, header validation failure, zero
\* items, the first that fails giving the answer; the upsert is reached only
\* with a non-empty item list, so no stored snapshot has an empty items list
C29_FailedUploadWritesNothing ==
    [][upload'.status # 0 =>
          /\ upload'.status # 200 => cablestock' = cablestock
          /\ FirstFailure(upload'.file) # "" =>
                (upload'.status = 400 /\ upload'.error = FirstFailure(upload'.file))
          /\ (FirstFailure(upload'.file) = "" /\ upload'.file.readable) =>
                upload'.status = 200
          /\ upload'.status = 200 => upload'.items # <<>>
          /\ \A d \in cablestock' : d.items # <<>>]_vars

\* an upload without items failed while the snapshot of its month was stored
C29_Witness ==
    /\ upload.error = "No valid items found in file"
    /\ \E d \in cablestock : d.month \in PatternMonths(upload.file.name)

\* the create requests for a non-shared unit with ip x under a name that
\* passes the name checks and is not in use
NonSharedCreates(U, x) ==
    {req \in CreateRequests :
        /\ req.ip = x
        /\ req.sharedComputer # "true"
        /\ CreateValidate(req) = ""
        /\ ~CreateNameTaken(U, req)}

\* C28: in every state, for a well-formed ip x and a name not in use,
\* check-ip reports x available exactly when a create of a non-shared unit
\* with ip x is not rejected with 'IP already exists'; an ip that only shared
\* units hold is reported available and the create stores the unit with it
C28_CheckIpAgreesWithCreate ==
    \A x \in IpInputs :
        (x # UNDEFINED /\ DottedQuad(x)) =>
            \A req \in NonSharedCreates(units, x) :
                \A o \in CreateUnit(units, nextId, req) :
                    /\ CheckIpResponse(units, x).error = "Available."
                          <=> o.error # "IP already exists"
                    /\ (/\ \E u \in units : u.ip = x
                        /\ \A u \in units : u.ip = x => Shared(u)) =>
                          /\ CheckIpResponse(units, x).error = "Available."
                          /\ o.status = 201
                          /\ \E n \in o.units :
                                n._id = nextId /\ n.ip = x /\ ~Shared(n)

\* a non-shared unit was created with an ip that a shared unit held, and
\* check-ip now reports that ip taken
C28_Witness ==
    /\ last.op = "create"
    /\ last.status = 201
    /\ \E n \in units :
          /\ n._id = last.id
          /\ ~Shared(n)
          /\ \E u \in units :
                /\ Shared(u)
                /\ u.ip = n.ip
                /\ u._id < n._id
                /\ u.primaryUser # n.name
          /\ CheckIpResponse(units, n.ip).error = "IP Address Already Exists."

\* C27: a unit create, update or delete that answers with an error leaves
\* the units collection as it was, and one that succeeds writes once: a
\* create adds one document, an update changes at most the one document of
\* its id, a delete removes one document
C27_ErrorWritesNothing ==
    [][last'.op \in {"create", "update", "delete"} =>
          /\ last'.status >= 400 => units' = units
          /\ (last'.op = "create" /\ last'.status = 201) =>
                /\ units \subseteq units'
                /\ Cardinality(units' \ units) = 1
          /\ (last'.op = "update" /\ last'.status = 200) =>
                /\ {u._id : u \in units'} = {u._id : u \in units}
                /\ \A u \in units : u._id # last'.id => u \in units'
          /\ (last'.op = "delete" /\ last'.status = 200) =>
                /\ units' \subseteq units
                /\ Cardinality(units \ units') = 1]_vars

\* a create was rejected for its ip while units were stored
C27_Witness ==
    /\ last.op = "create"
    /\ last.error = "IP already exists"
    /\ units # {}
====
